---- MODULE Spec2Model ----
(***************************************************************************)
(* Header-chain parser and ESP classifier of lucid-email-esp.              *)
(*                                                                         *)
(* Text is a sequence of symbols.  A symbol is either one whitespace       *)
(* character ("CR", "LF", "SP", "TAB") or a word: a maximal run of         *)
(* non-whitespace characters that the regular expressions of the source    *)
(* treat as a unit ("from", "mx.example.net", ";", "Received:", a date).   *)
(* The regular expressions are evaluated on these sequences the way the    *)
(* JavaScript engine evaluates them on characters: leftmost match, lazy    *)
(* groups shortest first, optional groups tried present first.             *)
(***************************************************************************)
EXTENDS Integers, Sequences, FiniteSets, TLC

VARIABLES
    text,        \* unfold run: the header text held by the caller
    unfolds,     \* unfold run: number of unfoldHeaders calls applied to text
    doc,         \* parser run: the header lines the argument was written from
    rawHeaders,  \* parser run: the argument passed to the parser
    pcChain,     \* parser run: "start", then the entry point that was called
    chain,       \* parser run: what the call produced
    headers,     \* classifier run: the headers argument, its entries in key order
    messageId,   \* classifier run: the messageId argument
    pcDetect,    \* classifier run: "start", then "done"
    detection,   \* classifier run: the EspDetection returned
    mailboxes,   \* watcher run: the matching messages held by each mailbox
    watchPc,     \* watcher run: "polling", then "located" or "timeout"
    located,     \* watcher run: the LocatedMessage returned
    iterations,  \* watcher run: iterations of the polling loop that found nothing
    written,     \* split run: the lines the argument was written from
    unfoldedText,  \* split run: the argument passed to splitHeaderBlocks
    pcSplit,     \* split run: "start", then "done"
    splitBlocks,  \* split run: the blocks returned
    sessions,    \* session run: the TestSession document stored for each token
    emails,      \* session run: the Email documents stored
    watchers,    \* session run: the position of each watchForTestEmail call
    resets,      \* session run: number of resetTest calls made for each token
    report,      \* session run: what getTestStatus returned, if it was the last step
    client,      \* connect run: whether this.client holds an ImapFlow object
    isConnected, \* connect run: this.isConnected
    connectionRetryCount,  \* connect run: this.connectionRetryCount
    connectPc,   \* connect run: "idle", "connecting", "returned" or "threw"
    attempts,    \* connect run: connection attempts made by the current call
    calls        \* connect run: number of connect() calls made

vars == <<text, unfolds, doc, rawHeaders, pcChain, chain,
         headers, messageId, pcDetect, detection,
         mailboxes, watchPc, located, iterations,
         written, unfoldedText, pcSplit, splitBlocks,
         sessions, emails, watchers, resets, report,
         client, isConnected, connectionRetryCount, connectPc, attempts, calls>>

parserVars == <<doc, rawHeaders, pcChain, chain>>
unfoldVars == <<text, unfolds>>
detectVars == <<headers, messageId, pcDetect, detection>>
watchVars == <<mailboxes, watchPc, located, iterations>>
splitVars == <<written, unfoldedText, pcSplit, splitBlocks>>
sessionVars == <<sessions, emails, watchers, resets, report>>
connectVars == <<client, isConnected, connectionRetryCount, connectPc, attempts, calls>>
serviceVars == <<splitVars, sessionVars, connectVars>>

----------------------------------------------------------------------------
(* Bounds *)

MaxLen == 6       \* longest text of the unfold run
MaxHeaders == 3   \* most header lines in a document of the parser run
MaxUid == 2       \* matching messages that can arrive during a watcher run
MaxIterations == 3  \* loop iterations that fit in maxWaitTime in a watcher run
MaxEntries == 3   \* most entries of the headers argument of the classifier run

----------------------------------------------------------------------------
(* Characters *)

WSP == {"SP", "TAB"}                  \* [ \t]
Space == {"SP", "TAB", "CR", "LF"}    \* \s

None == "undefined"                   \* a field that is not set

\* The values a caller can pass where a string is expected.
StringLike == {"string", "buffer"}
NonString == {"undefined", "null"}

Str(s) == [kind |-> "string", text |-> s]

----------------------------------------------------------------------------
(* header-utils: unfoldHeaders *)

RECURSIVE SkipWsp(_)
\* the rest of s after the run of [ \t] it starts with
SkipWsp(s) ==
    IF s # <<>> /\ Head(s) \in WSP THEN SkipWsp(Tail(s)) ELSE s

RECURSIVE ReplaceFolds(_)
\* text.replace(/\r\n[ \t]+/g, ' '): one left-to-right pass, matches do not
\* overlap and the replacement is not scanned again
ReplaceFolds(s) ==
    IF s = <<>> THEN <<>>
    ELSE IF Len(s) >= 3 /\ s[1] = "CR" /\ s[2] = "LF" /\ s[3] \in WSP
         THEN <<"SP">> \o ReplaceFolds(SkipWsp(SubSeq(s, 3, Len(s))))
         ELSE <<Head(s)>> \o ReplaceFolds(Tail(s))

\* unfoldHeaders(raw): a Buffer is converted to its string; for any other
\* non-string value text.replace is not a function and the call throws
unfoldHeaders(raw) ==
    IF raw.kind \in StringLike
    THEN [threw |-> FALSE, text |-> ReplaceFolds(raw.text)]
    ELSE [threw |-> TRUE, text |-> <<>>]

----------------------------------------------------------------------------
(* Words of the header text *)

\* header names: [A-Za-z-]+ followed by a colon
Names == {"Received:", "X-Received:", "Subject:"}

\* words made of letters only, which /[A-Za-z-]+:/ can run through
LetterWords == {"from", "by", "with", "id", "for", "SMTP", "malformed", "header"}

\* a date symbol stands for a whole date-time text (its words separated by
\* single spaces), which no expression of the parser looks into
EpochDate == "Thu, 01 Jan 1970 00:00:00 +0000"
EarlyDate == "Thu, 01 Jan 1970 00:00:01 +0000"
EarlyDateCET == "Thu, 01 Jan 1970 01:00:01 +0100"
LateDate == "Thu, 01 Jan 1970 00:00:05 +0000"
BadDate == "sometime yesterday"

Absent == <<>>          \* an optional field that is undefined
Some(v) == <<v>>        \* an optional field holding v

\* new Date(date).getTime(): milliseconds since the epoch, NaN for a text
\* that is not a date; the zone offset is part of the conversion
DateGetTime(date) ==
    IF date = <<EpochDate>> THEN Some(0)
    ELSE IF date = <<EarlyDate>> THEN Some(1000)
    ELSE IF date = <<EarlyDateCET>> THEN Some(1000)
    ELSE IF date = <<LateDate>> THEN Some(5000)
    ELSE Absent

\* the address inside /\[((?:\d{1,3}\.){3}\d{1,3}|[a-f0-9:]+)\]/i when the
\* word holds one
BracketedIp(w) ==
    IF w = "[192.0.2.1]" THEN Some("192.0.2.1")
    ELSE IF w = "([2001:db8::1])" THEN Some("2001:db8::1")
    ELSE Absent

----------------------------------------------------------------------------
(* String helpers of the JavaScript runtime *)

RECURSIVE TrimStart(_)
TrimStart(s) == IF s # <<>> /\ Head(s) \in Space THEN TrimStart(Tail(s)) ELSE s

RECURSIVE TrimEnd(_)
TrimEnd(s) ==
    IF s # <<>> /\ s[Len(s)] \in Space THEN TrimEnd(SubSeq(s, 1, Len(s) - 1)) ELSE s

\* String.prototype.trim
Trim(s) == TrimEnd(TrimStart(s))

RECURSIVE CollapseSpace(_)
\* header.replace(/\s+/g, ' ')
CollapseSpace(s) ==
    IF s = <<>> THEN <<>>
    ELSE IF Head(s) \in Space THEN <<"SP">> \o CollapseSpace(TrimStart(s))
    ELSE <<Head(s)>> \o CollapseSpace(Tail(s))

RECURSIVE JoinSp(_)
\* lines.join(' ')
JoinSp(lines) ==
    IF lines = <<>> THEN <<>>
    ELSE IF Len(lines) = 1 THEN lines[1]
    ELSE lines[1] \o <<"SP">> \o JoinSp(Tail(lines))

RECURSIVE Reverse(_)
\* Array.prototype.reverse
Reverse(s) == IF s = <<>> THEN <<>> ELSE Append(Reverse(Tail(s)), Head(s))

RECURSIVE HeaderAhead(_, _)
\* the lookahead (?=[A-Za-z-]+:) at position i
HeaderAhead(s, i) ==
    /\ i <= Len(s)
    /\ \/ s[i] \in Names
       \/ s[i] \in LetterWords /\ HeaderAhead(s, i + 1)

RECURSIVE SplitOnBreaks(_, _, _, _)
\* s.split(/\r?\n/) and, with needHeader, s.split(/\r?\n(?=[A-Za-z-]+:)/):
\* cur is the piece being collected, i the position of the scan
SplitOnBreaks(s, i, cur, needHeader) ==
    IF i > Len(s) THEN <<cur>>
    ELSE LET n == IF s[i] = "LF" THEN 1
                  ELSE IF s[i] = "CR" /\ i < Len(s) /\ s[i + 1] = "LF" THEN 2
                  ELSE 0
         IN  IF n > 0 /\ (~needHeader \/ HeaderAhead(s, i + n))
             THEN <<cur>> \o SplitOnBreaks(s, i + n, <<>>, needHeader)
             ELSE SplitOnBreaks(s, i + 1, Append(cur, s[i]), needHeader)

----------------------------------------------------------------------------
(* received-parser: the hop grammar RX, on a value whose whitespace runs   *)
(* are single spaces                                                       *)

NoMatch == [ok |-> FALSE]

\* \s+word\s+ at position p
Keyword(s, p, w) ==
    /\ p + 2 <= Len(s)
    /\ s[p] = "SP" /\ s[p + 1] = w /\ s[p + 2] = "SP"

\* the least e in p..Len(s) with Ok(e), or 0: a lazy group .+? that starts
\* at p is tried shortest first
LeastEnd(s, p, Ok(_)) ==
    LET scan[e \in p..(Len(s) + 1)] ==
            IF e > Len(s) THEN 0 ELSE IF Ok(e) THEN e ELSE scan[e + 1]
    IN  IF p > Len(s) THEN 0 ELSE scan[p]

\* \s*;\s*(?<date>.+)$ at position p
RXDate(s, p) ==
    LET semi == IF p <= Len(s) /\ s[p] = "SP" THEN p + 1 ELSE p
        start == IF semi + 1 <= Len(s) /\ s[semi + 1] = "SP" THEN semi + 2 ELSE semi + 1
    IN  IF semi <= Len(s) /\ s[semi] = ";" /\ start <= Len(s)
        THEN [ok |-> TRUE, date |-> SubSeq(s, start, Len(s))]
        ELSE NoMatch

\* an optional group (?:\s+word\s+(.+?))? at p whose lazy part ends at e, or
\* is left out when e = 0; Next(x) is the match of what follows, at x
Optional(s, p, e, Next(_)) ==
    IF e > 0
    THEN [ok |-> TRUE, value |-> SubSeq(s, p + 3, e), rest |-> Next(e + 1)]
    ELSE [ok |-> Next(p).ok, value |-> Absent, rest |-> Next(p)]

\* the group is tried present first, its lazy part shortest first
OptionalGroup(s, p, w, Next(_)) ==
    Optional(s, p,
             IF Keyword(s, p, w) THEN LeastEnd(s, p + 3, LAMBDA x : Next(x + 1).ok) ELSE 0,
             Next)

\* a lazy group (.+?) from p to e, which fails when e = 0
Lazy(s, p, e, Next(_)) ==
    IF e > 0
    THEN [ok |-> TRUE, value |-> SubSeq(s, p, e), rest |-> Next(e + 1)]
    ELSE NoMatch

LazyGroup(s, p, Next(_)) ==
    Lazy(s, p, LeastEnd(s, p, LAMBDA x : Next(x + 1).ok), Next)

\* (?:\s+for\s+(?<for>.+?))? followed by the date part
RXFor(s, p) == OptionalGroup(s, p, "for", LAMBDA x : RXDate(s, x))

\* (?:\s+id\s+(?<id>.+?))? followed by the for part
RXId(s, p) == OptionalGroup(s, p, "id", LAMBDA x : RXFor(s, x))

\* (?:\s+with\s+(?<with>.+?))? followed by the id part
RXWith(s, p) == OptionalGroup(s, p, "with", LAMBDA x : RXId(s, x))

\* (?<by>.+?) starting at p, followed by the with part
RXBy(s, p) == LazyGroup(s, p, LAMBDA x : RXWith(s, x))

\* \s+by\s+ at x, followed by the by part
RXByClause(s, x) == IF Keyword(s, x, "by") THEN RXBy(s, x + 3) ELSE NoMatch

\* (?<from>.+?) starting at p, followed by the by clause
RXFrom(s, p) == LazyGroup(s, p, LAMBDA x : RXByClause(s, x))

\* (?:^|\s)from\s+ at position i (the position of the word from)
RXStart(s, i) ==
    /\ i + 1 <= Len(s)
    /\ i = 1 \/ s[i - 1] = "SP"
    /\ s[i] = "from" /\ s[i + 1] = "SP"

\* the named groups of a match m of the from part
RXGroups(m) ==
    [ok |-> TRUE, from |-> m.value, by |-> m.rest.value,
     with |-> m.rest.rest.value, id |-> m.rest.rest.rest.value,
     for |-> m.rest.rest.rest.rest.value, date |-> m.rest.rest.rest.rest.rest.date]

RXAt(s, i) == IF i = 0 THEN NoMatch ELSE RXGroups(RXFrom(s, i + 2))

\* RX.exec(cleanHeader): the leftmost position where the whole expression
\* matches, and the named groups of that match
RX(s) == RXAt(s, LeastEnd(s, 1, LAMBDA i : RXStart(s, i) /\ RXFrom(s, i + 2).ok))

RECURSIVE RX_IP(_)
\* RX_IP.exec(token): the first bracketed address in the token
RX_IP(token) ==
    IF token = <<>> THEN Absent
    ELSE IF BracketedIp(Head(token)) # Absent THEN BracketedIp(Head(token))
    ELSE RX_IP(Tail(token))

----------------------------------------------------------------------------
(* received-parser: parseReceivingChainWithWarnings *)

UsedXReceived == "Used X-Received headers (Gmail)"
NoneFound == "No 'Received' or 'X-Received' headers found"

\* .replace(/^received:\s*/i, ''): the expression is anchored at the start
\* of the joined lines, not of the trimmed first line
StripLabel(joined, label) ==
    IF joined # <<>> /\ Head(joined) = label THEN TrimStart(Tail(joined)) ELSE joined

\* a parser that reads the first physical line only
FullHeader_FirstLineOnly(lines, label) == Trim(StripLabel(lines[1], label))

\* lines.join(' ').replace(/^received:\s*/i, '').trim()
FullHeader(lines, label) == Trim(StripLabel(JoinSp(lines), label))

\* firstLine.toLowerCase().startsWith('received:')
StartsWithLabel(firstLine, label) == firstLine # <<>> /\ Head(firstLine) = label

\* the value pushed for one block, if its trimmed first line has the label
BlockValue(lines, label) ==
    IF StartsWithLabel(Trim(lines[1]), label) THEN <<FullHeader(lines, label)>> ELSE <<>>

RECURSIVE HeaderValues(_, _)
\* the loop over headerBlocks: the values of the blocks whose first line
\* starts with the label, in document order
HeaderValues(blocks, label) ==
    IF blocks = <<>> THEN <<>>
    ELSE BlockValue(SplitOnBreaks(Head(blocks), 1, <<>>, FALSE), label)
         \o HeaderValues(Tail(blocks), label)

\* the address found in from, else the one found in by
FirstIp(fromIpMatch, byIpMatch) == IF fromIpMatch # Absent THEN fromIpMatch ELSE byIpMatch

\* a hop that keeps empty fields for a value RX does not match
HopOf_Defaulted(match) ==
    Some([from |-> IF match.ok THEN Trim(match.from) ELSE <<>>,
          by |-> IF match.ok THEN Trim(match.by) ELSE <<>>,
          with |-> Absent, id |-> Absent, for |-> Absent, ip |-> Absent,
          timestamp |-> IF match.ok THEN DateGetTime(match.date) ELSE Absent,
          hopDurationMs |-> Absent])

\* the hop built from the groups of a match, or null without a match
HopOf(match) ==
    IF ~match.ok THEN Absent
    ELSE Some([from |-> Trim(match.from),
               by |-> Trim(match.by),
               with |-> Trim(match.with),
               id |-> Trim(match.id),
               for |-> Trim(match.for),
               ip |-> FirstIp(RX_IP(match.from), RX_IP(match.by)),
               timestamp |-> DateGetTime(match.date),
               hopDurationMs |-> Absent])

\* the callback of headersToParse.map: the value on a single line with its
\* whitespace collapsed, matched against RX
ParseHop(header) == HopOf(RX(Trim(CollapseSpace(header))))

RECURSIVE ParsedChain(_)
\* headersToParse.map(...).filter((hop) => hop !== null)
ParsedChain(headersToParse) ==
    IF headersToParse = <<>> THEN <<>>
    ELSE ParseHop(Head(headersToParse)) \o ParsedChain(Tail(headersToParse))

\* a delta clamped at zero
DurationBetween_Clamped(current, next) ==
    IF next.timestamp[1] >= current.timestamp[1]
    THEN next.timestamp[1] - current.timestamp[1] ELSE 0

\* a delta taken the other way round
DurationBetween_Swapped(current, next) == current.timestamp[1] - next.timestamp[1]

\* next.timestamp.getTime() - current.timestamp.getTime()
DurationBetween(current, next) == next.timestamp[1] - current.timestamp[1]

\* a loop that takes a missing timestamp for the epoch
WithDurations_MissingAsEpoch(orderedChain) ==
    [i \in 1..Len(orderedChain) |->
        IF i < Len(orderedChain)
        THEN [orderedChain[i] EXCEPT !.hopDurationMs =
                  Some((IF orderedChain[i + 1].timestamp = Absent THEN 0
                        ELSE orderedChain[i + 1].timestamp[1])
                       - (IF orderedChain[i].timestamp = Absent THEN 0
                          ELSE orderedChain[i].timestamp[1]))]
        ELSE orderedChain[i]]

\* the loop that sets hopDurationMs on every hop but the last
WithDurations(orderedChain) ==
    [i \in 1..Len(orderedChain) |->
        IF i < Len(orderedChain)
           /\ orderedChain[i].timestamp # Absent
           /\ orderedChain[i + 1].timestamp # Absent
        THEN [orderedChain[i] EXCEPT !.hopDurationMs =
                  Some(DurationBetween(orderedChain[i], orderedChain[i + 1]))]
        ELSE orderedChain[i]]

\* the time a sort would order a hop by
SortTime(hop) == IF hop.timestamp = Absent THEN 0 ELSE hop.timestamp[1]

RECURSIVE InsertByTime(_, _)
InsertByTime(hop, sorted) ==
    IF sorted = <<>> THEN <<hop>>
    ELSE IF SortTime(hop) <= SortTime(Head(sorted)) THEN <<hop>> \o sorted
    ELSE <<Head(sorted)>> \o InsertByTime(hop, Tail(sorted))

RECURSIVE SortByTime(_)
SortByTime(hops) ==
    IF hops = <<>> THEN <<>> ELSE InsertByTime(Head(hops), SortByTime(Tail(hops)))

\* a chain reversed and then sorted by timestamp
OrderedChain_ByTimestamp(parsedChain) == SortByTime(Reverse(parsedChain))

\* a chain left in document order
OrderedChain_DocumentOrder(parsedChain) == parsedChain

\* Array.prototype.reverse applied to parsedChain
OrderedChain(parsedChain) == Reverse(parsedChain)

\* a selection that records no warning when nothing is found
SelectHeaders_Silent(receivedHeaders, xReceivedHeaders) ==
    IF Len(receivedHeaders) > 0
    THEN [found |-> TRUE, headersToParse |-> receivedHeaders, warnings |-> <<>>]
    ELSE IF Len(xReceivedHeaders) > 0
         THEN [found |-> TRUE, headersToParse |-> xReceivedHeaders,
               warnings |-> <<UsedXReceived>>]
         ELSE [found |-> FALSE, headersToParse |-> <<>>, warnings |-> <<>>]

\* a selection that always adds the X-Received values
SelectHeaders_Both(receivedHeaders, xReceivedHeaders) ==
    IF Len(receivedHeaders) + Len(xReceivedHeaders) > 0
    THEN [found |-> TRUE, headersToParse |-> receivedHeaders \o xReceivedHeaders,
          warnings |-> IF Len(xReceivedHeaders) > 0 THEN <<UsedXReceived>> ELSE <<>>]
    ELSE [found |-> FALSE, headersToParse |-> <<>>, warnings |-> <<NoneFound>>]

\* the values the hops are parsed from and the warnings recorded for the
\* choice: Received values first, X-Received values when there are none
SelectHeaders(receivedHeaders, xReceivedHeaders) ==
    IF Len(receivedHeaders) > 0
    THEN [found |-> TRUE, headersToParse |-> receivedHeaders, warnings |-> <<>>]
    ELSE IF Len(xReceivedHeaders) > 0
         THEN [found |-> TRUE, headersToParse |-> xReceivedHeaders,
               warnings |-> <<UsedXReceived>>]
         ELSE [found |-> FALSE, headersToParse |-> <<>>, warnings |-> <<NoneFound>>]

Threw == [threw |-> TRUE, hops |-> <<>>, warnings |-> <<>>]

\* a result that records a warning when no selected value gave a hop
ChainOf_WarnsWhenEmpty(sel) ==
    [threw |-> FALSE,
     hops |-> IF sel.found
              THEN WithDurations(OrderedChain(ParsedChain(sel.headersToParse)))
              ELSE <<>>,
     warnings |-> IF sel.found /\ ParsedChain(sel.headersToParse) = <<>>
                  THEN Append(sel.warnings, "No parseable Received headers")
                  ELSE sel.warnings]

\* steps 3 and 4: the hops of the selected values, oldest first, or the
\* early return when nothing was selected; warnings <<>> stands for the
\* undefined that is returned when no warning was recorded
ChainOf(sel) ==
    [threw |-> FALSE,
     hops |-> IF sel.found
              THEN WithDurations(OrderedChain(ParsedChain(sel.headersToParse)))
              ELSE <<>>,
     warnings |-> sel.warnings]

\* step 2: the Received and X-Received values of the blocks
ParseBlocks(headerBlocks) ==
    ChainOf(SelectHeaders(HeaderValues(headerBlocks, "Received:"),
                          HeaderValues(headerBlocks, "X-Received:")))

\* the blocks of the unfolded text, unless unfolding threw
ParseUnfolded(unfolded) ==
    IF unfolded.threw THEN Threw
    ELSE ParseBlocks(SplitOnBreaks(unfolded.text, 1, <<>>, TRUE))

\* parseReceivingChainWithWarnings(rawHeaders)
parseReceivingChainWithWarnings(raw) == ParseUnfolded(unfoldHeaders(raw))

HopsOf(result) == [threw |-> result.threw, hops |-> result.hops]

\* parseReceivingChain(rawHeaders): the hops of the enhanced parser
parseReceivingChain(raw) == HopsOf(parseReceivingChainWithWarnings(raw))

----------------------------------------------------------------------------
(* auth-parser and esp-detector: the signals and the classifier            *)
(*                                                                         *)
(* A header name is the sequence of its hyphen-separated segments.  A      *)
(* header value is a sequence of fragments separated by spaces; a fragment *)
(* [kind, dom] is a piece of text that mentions the domain dom:            *)
(*   "d="       d=dom;                  "host"     a host name under dom   *)
(*   "angle"    <bounce@dom>            "addr"     bounce@dom              *)
(*   "spf"      spf=pass (dom)          "spfbare"  spf=pass                *)
(*   "spfnote"  spf=pass (dom: domain of the sender)                       *)
(*   "paren"    (dom)                   "word"     text without a domain   *)
(***************************************************************************)

\* DOMAIN_TO_PROVIDER, in the order of its keys
DOMAIN_TO_PROVIDER ==
    << <<"amazonses.com", "Amazon SES">>,
       <<"sendgrid.net", "SendGrid">>,
       <<"mailgun.org", "Mailgun">>,
       <<"sparkpostmail.com", "SparkPost">>,
       <<"mailjet.com", "Mailjet">>,
       <<"postmarkapp.com", "Postmark">>,
       <<"protection.outlook.com", "Microsoft 365/Outlook">>,
       <<"outlook.com", "Microsoft 365/Outlook">>,
       <<"smtp.office365.com", "Microsoft 365/Outlook">>,
       <<"zohomail.com", "Zoho">>,
       <<"zoho.com", "Zoho">>,
       <<"google.com", "Gmail">>,
       <<"gmail.com", "Gmail">>,
       <<"yahoo.com", "Yahoo">>,
       <<"yahoo-inc.com", "Yahoo">> >>

\* DOMAIN_TO_PROVIDER[domain]
ProviderOf(domain) ==
    LET hits == {i \in 1..Len(DOMAIN_TO_PROVIDER) : DOMAIN_TO_PROVIDER[i][1] = domain}
    IN  IF hits = {} THEN Absent ELSE Some(DOMAIN_TO_PROVIDER[CHOOSE i \in hits : TRUE][2])

\* String.prototype.toLowerCase on the texts of the model
ToLowerCase(w) ==
    CASE w = "SendGrid.NET" -> "sendgrid.net"
      [] w = "DKIM" -> "dkim"
      [] w = "Signature" -> "signature"
      [] w = "Received" -> "received"
      [] w = "Return" -> "return"
      [] w = "Path" -> "path"
      [] w = "Authentication" -> "authentication"
      [] w = "Results" -> "results"
      [] w = "Subject" -> "subject"
      [] w = "X" -> "x"
      [] w = "SG" -> "sg"
      [] w = "EID" -> "eid"
      [] w = "SES" -> "ses"
      [] w = "Outgoing" -> "outgoing"
      [] w = "Mailgun" -> "mailgun"
      [] w = "Msg" -> "msg"
      [] w = "Id" -> "id"
      [] w = "MJ" -> "mj"
      [] w = "PM" -> "pm"
      [] w = "SP" -> "sp"
      [] w = "Tag" -> "tag"
      [] OTHER -> w

LowerName(name) == [i \in 1..Len(name) |-> ToLowerCase(name[i])]

\* text.includes(domain) for a lower-case text that is the domain d
DomainIncludes(d, domain) ==
    \/ d = domain
    \/ d = "protection.outlook.com" /\ domain = "outlook.com"
    \/ d = "mail.gmail.com" /\ domain = "gmail.com"

\* header-utils headersToMap: the values of each name, names in the order
\* of their first entry
RECURSIVE headersToMap(_)
headersToMap(entries) ==
    IF entries = <<>> THEN <<>>
    ELSE LET before == headersToMap(SubSeq(entries, 1, Len(entries) - 1))
             last == entries[Len(entries)]
             at == {i \in 1..Len(before) : before[i].name = last.name}
         IN  IF at = {}
             THEN Append(before, [name |-> last.name, values |-> <<last.value>>])
             ELSE [i \in 1..Len(before) |->
                      IF i \in at
                      THEN [before[i] EXCEPT !.values = Append(@, last.value)]
                      ELSE before[i]]

\* values.join(' ') of fragment sequences
RECURSIVE JoinValues(_)
JoinValues(values) ==
    IF values = <<>> THEN <<>> ELSE Head(values) \o JoinValues(Tail(values))

\* header-utils getAll over the entries {name, value: values.join(' ')} of
\* the map: one joined value per name
getAll(headersMap, name) ==
    LET hits == SelectSeq(headersMap, LAMBDA h : h.name = name)
    IN  [i \in 1..Len(hits) |-> JoinValues(hits[i].values)]

FirstOfKinds(value, kinds) ==
    LET hits == {i \in 1..Len(value) : value[i].kind \in kinds}
    IN  IF hits = {} THEN 0 ELSE CHOOSE i \in hits : \A j \in hits : i <= j

RECURSIVE extractDkimD(_)
\* the first signature with a d= tag gives the domain, in lower case
extractDkimD(dkimSignatures) ==
    IF dkimSignatures = <<>> THEN Absent
    ELSE LET i == FirstOfKinds(Head(dkimSignatures), {"d="})
         IN  IF i > 0 THEN Some(ToLowerCase(Head(dkimSignatures)[i].dom))
             ELSE extractDkimD(Tail(dkimSignatures))

\* /<.*?@([^>]+)>/ on the message id
extractMessageIdDomain(msgId) ==
    IF msgId = Absent THEN Absent
    ELSE IF msgId[1].kind = "angle" THEN Some(ToLowerCase(msgId[1].dom))
    ELSE Absent

\* the address of the first <...>, else the first @domain of the text
extractReturnPathDomain(returnPath) ==
    LET b == FirstOfKinds(returnPath, {"angle"})
        a == FirstOfKinds(returnPath, {"addr"})
    IN  IF b > 0 THEN Some(ToLowerCase(returnPath[b].dom))
        ELSE IF a > 0 THEN Some(ToLowerCase(returnPath[a].dom))
        ELSE Absent

\* /spf=(\w+)(?:\s+\(([^)]+)\))?/i on the first value: the text between the
\* parentheses that follow the first spf=, as it is written
SpfQualifier(authResult) ==
    LET i == FirstOfKinds(authResult, {"spf", "spfbare", "spfnote"})
    IN  IF i = 0 THEN [found |-> FALSE, domain |-> Absent]
        ELSE IF authResult[i].kind = "spf"
             THEN [found |-> TRUE, domain |-> Some(<<authResult[i].dom>>)]
        ELSE IF authResult[i].kind = "spfnote"
             THEN [found |-> TRUE,
                   domain |-> Some(<<authResult[i].dom, ": domain of the sender">>)]
        ELSE IF i < Len(authResult) /\ authResult[i + 1].kind = "paren"
             THEN [found |-> TRUE, domain |-> Some(<<authResult[i + 1].dom>>)]
        ELSE [found |-> TRUE, domain |-> Absent]

\* parseAuthenticationResults(values), its spf part
parseAuthenticationResults(values) ==
    IF values = <<>> THEN [found |-> FALSE, domain |-> Absent]
    ELSE SpfQualifier(values[1])

StartsWith(name, prefix) ==
    Len(name) > Len(prefix) /\ SubSeq(name, 1, Len(prefix)) = prefix

\* the signals pushed for one header name: the label of the family and the
\* rest of the name, which the signal holds in upper case
SignalsOfName(lowerName) ==
    LET after(n) == SubSeq(lowerName, n + 1, Len(lowerName))
    IN  (IF StartsWith(lowerName, <<"x", "sg">>)
         THEN <<[label |-> "X-SG-", rest |-> after(2)]>> ELSE <<>>)
        \o (IF StartsWith(lowerName, <<"x", "mailgun">>)
            THEN <<[label |-> "X-Mailgun-", rest |-> after(2)]>> ELSE <<>>)
        \o (IF StartsWith(lowerName, <<"x", "mj">>)
            THEN <<[label |-> "X-MJ-", rest |-> <<"">> \o after(2)]>> ELSE <<>>)
        \o (IF StartsWith(lowerName, <<"x", "ses">>)
            THEN <<[label |-> "X-SES-", rest |-> after(2)]>> ELSE <<>>)
        \o (IF StartsWith(lowerName, <<"x", "ms", "exchange">>)
            THEN <<[label |-> "X-MS-Exchange-", rest |-> after(3)]>> ELSE <<>>)
        \o (IF StartsWith(lowerName, <<"x", "pm">>)
            THEN <<[label |-> "X-PM-", rest |-> after(2)]>>
            ELSE IF lowerName = <<"x", "postmark", "tag">>
            THEN <<[label |-> "X-PM-", rest |-> <<"tmark", "tag">>]>> ELSE <<>>)
        \o (IF StartsWith(lowerName, <<"x", "sp">>)
            THEN <<[label |-> "X-SP-", rest |-> after(2)]>>
            ELSE IF lowerName = <<"x", "spam", "score">>
            THEN <<[label |-> "X-SP-", rest |-> <<"m", "score">>]>> ELSE <<>>)

RECURSIVE extractXProviderSignals(_)
\* the signals of all names of the map, in the order of the map
extractXProviderSignals(headersMap) ==
    IF headersMap = <<>> THEN <<>>
    ELSE SignalsOfName(LowerName(Head(headersMap).name))
         \o extractXProviderSignals(Tail(headersMap))

\* the segment, in upper case, ends with the letters
EndsWithUpper(segment, letters) ==
    \/ letters = "SG" /\ segment \in {"sg", "msg"}
    \/ letters = "MJ" /\ segment = "mj"
    \/ letters = "SES" /\ segment = "ses"
    \/ letters = "PM" /\ segment = "pm"

\* signal.includes(letters + '-'): in the label, or at the end of a segment
\* of the rest that a hyphen follows
SignalIncludes(signal, letters) ==
    \/ signal.label = "X-" \o letters \o "-"
    \/ \E k \in 1..(Len(signal.rest) - 1) : EndsWithUpper(signal.rest[k], letters)

\* the provider the classifier credits a signal to, by the first of its
\* tests that the signal passes
SignalProvider(signal) ==
    IF SignalIncludes(signal, "SG") THEN Some("SendGrid")
    ELSE IF signal.label = "X-Mailgun-" THEN Some("Mailgun")
    ELSE IF SignalIncludes(signal, "MJ") THEN Some("Mailjet")
    ELSE IF SignalIncludes(signal, "SES") THEN Some("Amazon SES")
    ELSE IF signal.label = "X-MS-Exchange-" THEN Some("Microsoft 365/Outlook")
    ELSE IF SignalIncludes(signal, "PM") THEN Some("Postmark")
    ELSE Absent

\* scores in which a provider scored for the first time comes first
AddScore_Newest(scores, provider, weight) ==
    IF \E i \in 1..Len(scores) : scores[i].provider = provider
    THEN [i \in 1..Len(scores) |->
             IF scores[i].provider = provider
             THEN [scores[i] EXCEPT !.score = @ + weight] ELSE scores[i]]
    ELSE <<[provider |-> provider, score |-> weight]>> \o scores

\* providerScores[provider] = (providerScores[provider] || 0) + weight, the
\* providers kept in the order they were first scored
AddScore(scores, provider, weight) ==
    IF \E i \in 1..Len(scores) : scores[i].provider = provider
    THEN [i \in 1..Len(scores) |->
             IF scores[i].provider = provider
             THEN [scores[i] EXCEPT !.score = @ + weight] ELSE scores[i]]
    ELSE Append(scores, [provider |-> provider, score |-> weight])

\* a match that appends its reason only for a provider not scored before
Credit_OncePerProvider(acc, provider, weight, kind, value) ==
    [scores |-> AddScore(acc.scores, provider, weight),
     reasons |-> IF \E i \in 1..Len(acc.scores) : acc.scores[i].provider = provider
                 THEN acc.reasons
                 ELSE Append(acc.reasons, [kind |-> kind, value |-> value])]

\* one contributing match: the score and the reason it appends
Credit(acc, provider, weight, kind, value) ==
    [scores |-> AddScore(acc.scores, provider, weight),
     reasons |-> Append(acc.reasons, [kind |-> kind, value |-> value])]

NoCredit == [scores |-> <<>>, reasons |-> <<>>]

\* a domain signal scored without the test that the table has the domain
CreditDomain_Unguarded(acc, domain, weight, kind) ==
    IF domain = Absent THEN acc
    ELSE Credit(acc,
                IF ProviderOf(domain[1]) # Absent THEN ProviderOf(domain[1])[1]
                ELSE "undefined",
                weight, kind, domain[1])

\* a domain signal: scored when the domain is a key of the table
CreditDomain(acc, domain, weight, kind) ==
    IF domain # Absent /\ ProviderOf(domain[1]) # Absent
    THEN Credit(acc, ProviderOf(domain[1])[1], weight, kind, domain[1])
    ELSE acc

\* the first domain of the table that the Received value includes
FirstDomainIn(received) ==
    LET hits == {i \in 1..Len(DOMAIN_TO_PROVIDER) :
                    \E k \in 1..Len(received) :
                        /\ received[k].kind # "word"
                        /\ DomainIncludes(ToLowerCase(received[k].dom),
                                          DOMAIN_TO_PROVIDER[i][1])}
    IN  IF hits = {} THEN 0 ELSE CHOOSE i \in hits : \A j \in hits : i <= j

RECURSIVE CreditReceived(_, _)
\* the loop over receivedHeaders
CreditReceived(acc, receivedHeaders) ==
    IF receivedHeaders = <<>> THEN acc
    ELSE LET i == FirstDomainIn(Head(receivedHeaders))
             next == IF i = 0 THEN acc
                     ELSE Credit(acc, DOMAIN_TO_PROVIDER[i][2], 4, "Received via",
                                 DOMAIN_TO_PROVIDER[i][1])
         IN  CreditReceived(next, Tail(receivedHeaders))

RECURSIVE CreditSignals_Unscored(_, _)
\* a loop that records the reason of every signal of a provider but leaves
\* out the score
CreditSignals_Unscored(acc, xSignals) ==
    IF xSignals = <<>> THEN acc
    ELSE CreditSignals_Unscored(
             IF SignalProvider(Head(xSignals)) = Absent THEN acc
             ELSE [acc EXCEPT !.reasons =
                       Append(@, [kind |-> "present", value |-> Head(xSignals)])],
             Tail(xSignals))

RECURSIVE CreditSignals(_, _)
\* the loop over xSignals
CreditSignals(acc, xSignals) ==
    IF xSignals = <<>> THEN acc
    ELSE LET provider == SignalProvider(Head(xSignals))
             next == IF provider = Absent THEN acc
                     ELSE Credit(acc, provider[1], 3, "present", Head(xSignals))
         IN  CreditSignals(next, Tail(xSignals))

\* an SPF hint that weighs as much as a DKIM match
CreditSpf_Heavy(acc, authResults) ==
    IF authResults.domain # Absent /\ Len(authResults.domain[1]) = 1
    THEN CreditDomain(acc, Some(authResults.domain[1][1]), 5, "SPF domain")
    ELSE acc

\* the SPF hint: the qualifier is looked up as it is written
CreditSpf(acc, authResults) ==
    IF authResults.domain # Absent /\ Len(authResults.domain[1]) = 1
    THEN CreditDomain(acc, Some(authResults.domain[1][1]), 1, "SPF domain")
    ELSE acc

RECURSIVE Highest_LastWins(_, _)
\* a loop in which a later provider wins with an equal score too
Highest_LastWins(scores, best) ==
    IF scores = <<>> THEN best
    ELSE Highest_LastWins(Tail(scores),
                          IF Head(scores).score >= best.score THEN Head(scores) ELSE best)

RECURSIVE Highest(_, _)
\* the loop over Object.entries(providerScores): a later provider wins only
\* with a strictly higher score
Highest(scores, best) ==
    IF scores = <<>> THEN best
    ELSE Highest(Tail(scores),
                 IF Head(scores).score > best.score THEN Head(scores) ELSE best)

\* bestScore / 10 without the cap, in tenths
Confidence_Uncapped(bestScore) == bestScore

\* Math.min(1, bestScore / 10), in tenths
Confidence(bestScore) == IF bestScore < 10 THEN bestScore ELSE 10

\* detectESP(headers, messageId); confidence is held in tenths.  The value
\* of a header is the sequence of its strings: an array as it is, a single
\* string as a sequence of one; Array.isArray(value) ? value.join(' ') :
\* value is the join of that sequence
detectESP(hdrs, msgId) ==
    LET headersMap == headersToMap([i \in 1..Len(hdrs) |->
                          [name |-> LowerName(hdrs[i].name),
                           value |-> JoinValues(hdrs[i].value)]])
        dkimDomain == extractDkimD(getAll(headersMap, <<"dkim", "signature">>))
        afterDkim == CreditDomain(NoCredit, dkimDomain, 5, "DKIM d=")
        receivedHeaders == getAll(headersMap, <<"received">>)
        afterReceived == CreditReceived(afterDkim, receivedHeaders)
        messageIdDomain == extractMessageIdDomain(msgId)
        afterMessageId == CreditDomain(afterReceived, messageIdDomain, 3, "Message-ID domain")
        returnPathHeaders == getAll(headersMap, <<"return", "path">>)
        returnPathDomain == IF returnPathHeaders = <<>> THEN Absent
                            ELSE extractReturnPathDomain(returnPathHeaders[1])
        afterReturnPath == CreditDomain(afterMessageId, returnPathDomain, 2, "Return-Path domain")
        xSignals == extractXProviderSignals(headersMap)
        afterSignals == CreditSignals(afterReturnPath, xSignals)
        authResults == parseAuthenticationResults(
                           getAll(headersMap, <<"authentication", "results">>))
        final == CreditSpf(afterSignals, authResults)
        best == Highest(final.scores, [provider |-> "Unknown", score |-> 0])
        matched == SelectSeq(receivedHeaders, LAMBDA r : FirstDomainIn(r) > 0)
        lastReceived == IF matched = <<>> THEN 0
                        ELSE FirstDomainIn(matched[Len(matched)])
    IN  [provider |-> best.provider,
         confidence |-> Confidence(best.score),
         reasons |-> final.reasons,
         signals |-> [dkim_d |-> dkimDomain,
                      received_domain |-> IF lastReceived = 0 THEN Absent
                                          ELSE Some(DOMAIN_TO_PROVIDER[lastReceived][1]),
                      message_id_domain |-> messageIdDomain,
                      return_path_domain |-> returnPathDomain,
                      x_headers |-> xSignals]]

----------------------------------------------------------------------------
(* Unfold run: a caller normalises a text, possibly more than once *)

UnfoldAlphabet == {"CR", "LF", "SP", "TAB", "x"}

RECURSIVE SeqsUpTo(_, _)
SeqsUpTo(S, n) ==
    IF n = 0 THEN {<<>>}
    ELSE LET shorter == SeqsUpTo(S, n - 1)
         IN  shorter \cup {Append(s, c) : s \in {t \in shorter : Len(t) = n - 1}, c \in S}

\* Gmail mailboxes to search, in order of preference
searchMailboxes == <<"INBOX", "[Gmail]/All Mail", "[Gmail]/Sent Mail">>

MailboxNames == {searchMailboxes[i] : i \in 1..Len(searchMailboxes)}

\* no watcher is running
WatchIdle ==
    /\ mailboxes = [m \in MailboxNames |-> {}]
    /\ watchPc = "idle"
    /\ located = None
    /\ iterations = 0

\* no classifier call is in progress
DetectIdle ==
    /\ headers = <<>>
    /\ messageId = Absent
    /\ pcDetect = "idle"
    /\ detection = None

\* no splitHeaderBlocks call is in progress
SplitIdle ==
    /\ written = <<>>
    /\ unfoldedText = <<>>
    /\ pcSplit = "idle"
    /\ splitBlocks = <<>>

\* the EmailsService holds no session and runs no watcher
SessionIdle ==
    /\ sessions = <<>>
    /\ emails = {}
    /\ watchers = <<>>
    /\ resets = <<>>
    /\ report = Absent

\* no connect() call has been made
ConnectIdle ==
    /\ client = FALSE
    /\ isConnected = FALSE
    /\ connectionRetryCount = 0
    /\ connectPc = "idle"
    /\ attempts = 0
    /\ calls = 0

ServiceIdle == SplitIdle /\ SessionIdle /\ ConnectIdle

InitUnfold ==
    /\ text \in SeqsUpTo(UnfoldAlphabet, MaxLen)
    /\ unfolds = 0
    /\ doc = [eol |-> <<"LF">>, lines |-> <<>>]
    /\ rawHeaders = Str(<<>>)
    /\ pcChain = "idle"
    /\ chain = None
    /\ ServiceIdle
    /\ DetectIdle
    /\ WatchIdle

Unfold ==
    /\ pcChain = "idle"
    /\ unfolds < 2
    /\ text' = unfoldHeaders(Str(text)).text
    /\ unfolds' = unfolds + 1
    /\ UNCHANGED <<serviceVars, parserVars, detectVars, watchVars>>

NextUnfold == Unfold

SpecUnfold == InitUnfold /\ [][NextUnfold]_vars

\* C1: un-folding is idempotent: a text that has been un-folded once is left
\* unchanged by un-folding it again, for every header text.
C1_UnfoldIdempotent ==
    unfolds >= 1 => unfoldHeaders(Str(text)).text = text

----------------------------------------------------------------------------
(* Parser run: a header text is written, line by line, and parsed *)

\* One header line: its name, the words before the from clause, the clauses
\* (Absent when the line has none), whether it has the semicolon, the date
\* text, and whether it is folded into three physical lines with tabs.
Plain == [name |-> "Received:", lead |-> <<>>,
          from |-> <<"mail.example.org">>, by |-> <<"mx.example.net">>,
          with |-> Absent, id |-> Absent, for |-> Absent,
          semi |-> TRUE, date |-> <<EarlyDate>>, fold |-> FALSE]

WellFormedLines ==
    {[Plain EXCEPT !.date = <<d>>] : d \in {EpochDate, LateDate, BadDate}}
    \cup {[Plain EXCEPT !.with = <<"SMTP">>, !.id = <<"12345">>, !.fold = TRUE],
          [Plain EXCEPT !.from = <<"mail.example.org", "([2001:db8::1])">>,
                        !.for = <<"<user@example.org>">>, !.date = <<EarlyDateCET>>]}

MalformedLines ==
    {[Plain EXCEPT !.lead = <<"malformed", "header">>, !.from = Absent,
                   !.by = Absent, !.semi = FALSE, !.date = Absent],
     [Plain EXCEPT !.date = Absent]}

XReceivedLines ==
    {[Plain EXCEPT !.name = "X-Received:", !.date = <<LateDate>>],
     [Plain EXCEPT !.name = "X-Received:", !.from = Absent,
                   !.by = <<"[192.0.2.1]">>, !.with = <<"SMTP">>, !.fold = TRUE]}

OtherLines ==
    {[Plain EXCEPT !.name = "Subject:", !.lead = <<"Received:">>],
     [Plain EXCEPT !.name = "Subject:", !.lead = <<"header">>, !.from = Absent,
                   !.by = Absent, !.semi = FALSE, !.date = Absent]}

HeaderLines == WellFormedLines \cup MalformedLines \cup XReceivedLines \cup OtherLines

\* the line matches the hop grammar: from, by, a semicolon and a date text
GrammarOK(line) ==
    line.from # Absent /\ line.by # Absent /\ line.semi /\ line.date # Absent

Clause(keyword, words) == IF words = Absent THEN <<>> ELSE <<<<keyword>> \o words>>

RECURSIVE Flatten(_)
Flatten(pieces) == IF pieces = <<>> THEN <<>> ELSE Head(pieces) \o Flatten(Tail(pieces))

RECURSIVE Spaced(_)
\* words separated by single spaces
Spaced(words) ==
    IF words = <<>> THEN <<>>
    ELSE IF Len(words) = 1 THEN <<words[1]>>
    ELSE <<words[1], "SP">> \o Spaced(Tail(words))

RECURSIVE JoinWith(_, _)
\* the non-empty pieces with sep between them
JoinWith(pieces, sep) ==
    IF pieces = <<>> THEN <<>>
    ELSE IF Head(pieces) = <<>> THEN JoinWith(Tail(pieces), sep)
    ELSE LET rest == JoinWith(Tail(pieces), sep)
         IN  IF rest = <<>> THEN Head(pieces) ELSE Head(pieces) \o sep \o rest

\* the text of one header line: the name and the from clause, then the other
\* clauses closed by the semicolon, then the date; a folded line breaks
\* between the three and indents the continuation with a tab
RenderLine(line, eol) ==
    LET first == Spaced(<<line.name>> \o line.lead
                        \o Flatten(Clause("from", line.from)))
        second == Spaced(Flatten(Clause("by", line.by) \o Clause("with", line.with)
                                 \o Clause("id", line.id) \o Clause("for", line.for)))
                  \o (IF line.semi THEN <<";">> ELSE <<>>)
        third == Spaced(line.date)
    IN  JoinWith(<<first, second, third>>,
                 IF line.fold THEN eol \o <<"TAB">> ELSE <<"SP">>)

RECURSIVE Render(_, _)
\* the header text: every line ended by the line break of the document
Render(lines, eol) ==
    IF lines = <<>> THEN <<>>
    ELSE RenderLine(Head(lines), eol) \o eol \o Render(Tail(lines), eol)

LineBreaks == {<<"CR", "LF">>, <<"LF">>}

Docs == [eol : LineBreaks, lines : SeqsUpTo(HeaderLines, MaxHeaders)]

NoDoc == [eol |-> <<"LF">>, lines |-> <<>>]

InitChain ==
    /\ text = <<>>
    /\ unfolds = 0
    /\ \/ /\ doc \in Docs
          /\ rawHeaders = [kind |-> "string", text |-> Render(doc.lines, doc.eol)]
       \/ /\ doc = NoDoc
          /\ rawHeaders \in {[kind |-> k, text |-> <<>>] : k \in NonString \cup {"buffer"}}
    /\ pcChain = "start"
    /\ chain = None
    /\ ServiceIdle
    /\ DetectIdle
    /\ WatchIdle

CallParseWithWarnings ==
    /\ pcChain = "start"
    /\ pcChain' = "parseReceivingChainWithWarnings"
    /\ chain' = parseReceivingChainWithWarnings(rawHeaders)
    /\ UNCHANGED <<serviceVars, unfoldVars, doc, rawHeaders, detectVars, watchVars>>

CallParseReceivingChain ==
    /\ pcChain = "start"
    /\ pcChain' = "parseReceivingChain"
    /\ chain' = parseReceivingChain(rawHeaders)
    /\ UNCHANGED <<serviceVars, unfoldVars, doc, rawHeaders, detectVars, watchVars>>

NextChain == CallParseWithWarnings \/ CallParseReceivingChain

SpecChain == InitChain /\ [][NextChain]_vars

Returned == pcChain # "start"
ReturnedWithWarnings == pcChain = "parseReceivingChainWithWarnings"

IsString == rawHeaders.kind \in StringLike

Named(lines, name) == SelectSeq(lines, LAMBDA l : l.name = name)

\* the header lines of the document the hops are to be parsed from
SelectedLines ==
    IF Named(doc.lines, "Received:") # <<>> THEN Named(doc.lines, "Received:")
    ELSE Named(doc.lines, "X-Received:")

\* those of them that match the hop grammar, in document order
ParseableLines == SelectSeq(SelectedLines, GrammarOK)

HasTimestamp(line) == DateGetTime(line.date) # Absent
TimeOf(line) == DateGetTime(line.date)[1]

Durations == {i \in 1..Len(chain.hops) : chain.hops[i].hopDurationMs # Absent}

\* C2: the parser never raises: every input, a non-string value included,
\* gives a result, and a non-string value gives the result of a text without
\* Received headers (no hops, and a warning).
C2_NeverRaises ==
    Returned =>
        /\ ~chain.threw
        /\ rawHeaders.kind \in NonString =>
               /\ chain.hops = <<>>
               /\ ReturnedWithWarnings => chain.warnings # <<>>

\* C3: a text in which no line is a Received or X-Received header (the empty
\* text included) gives no hops, together with a non-empty warnings list, and
\* parseReceivingChain returns the empty list.
C3_NoHeadersNoHops ==
    (Returned /\ IsString /\ SelectedLines = <<>>) =>
        /\ ~chain.threw
        /\ chain.hops = <<>>
        /\ ReturnedWithWarnings => chain.warnings # <<>>

C3_Witness ==
    /\ ReturnedWithWarnings /\ IsString /\ SelectedLines = <<>>
    /\ \E i \in 1..Len(doc.lines) : "Received:" \in {doc.lines[i].lead[j] : j \in 1..Len(doc.lines[i].lead)}
    /\ chain.hops = <<>> /\ chain.warnings = <<NoneFound>>

\* the document is two well-formed Received headers and nothing else
TwoWellFormed ==
    /\ Len(doc.lines) = 2
    /\ \A i \in 1..2 : doc.lines[i].name = "Received:" /\ GrammarOK(doc.lines[i])

\* C4 as stated: two well-formed Received headers give exactly 2 hops whose
\* timestamps, when both present, do not decrease along the list.
C4_TwoHopsAscending ==
    (Returned /\ TwoWellFormed) =>
        /\ Len(chain.hops) = 2
        /\ (chain.hops[1].timestamp # Absent /\ chain.hops[2].timestamp # Absent) =>
               chain.hops[1].timestamp[1] <= chain.hops[2].timestamp[1]

\* C4 as amended: two well-formed Received headers give exactly 2 hops in
\* reverse document order (hops[0] from the second header, hops[1] from the
\* first); hops[0].timestamp <= hops[1].timestamp holds when both are present
\* and the first header's date is not earlier than the second's.
C4_TwoHopsReversed ==
    (Returned /\ TwoWellFormed) =>
        /\ Len(chain.hops) = 2
        /\ \A i \in 1..2 :
               /\ chain.hops[i].timestamp = DateGetTime(doc.lines[3 - i].date)
               /\ chain.hops[i].from = Spaced(doc.lines[3 - i].from)
        /\ (HasTimestamp(doc.lines[1]) /\ HasTimestamp(doc.lines[2])
            /\ TimeOf(doc.lines[1]) >= TimeOf(doc.lines[2])) =>
               chain.hops[1].timestamp[1] <= chain.hops[2].timestamp[1]

C4_Witness ==
    /\ Returned /\ TwoWellFormed
    /\ HasTimestamp(doc.lines[1]) /\ HasTimestamp(doc.lines[2])
    /\ TimeOf(doc.lines[1]) > TimeOf(doc.lines[2])
    /\ Len(chain.hops) = 2
    /\ chain.hops[1].timestamp[1] < chain.hops[2].timestamp[1]

\* C5: in every returned chain hopDurationMs of hop i is the timestamp of hop
\* i+1 minus the timestamp of hop i when both are present, negative
\* differences kept, and is absent when either timestamp is missing and on
\* the last hop.
C5_DurationIsDelta ==
    Returned =>
        \A i \in 1..Len(chain.hops) :
            chain.hops[i].hopDurationMs =
                IF i < Len(chain.hops)
                   /\ chain.hops[i].timestamp # Absent
                   /\ chain.hops[i + 1].timestamp # Absent
                THEN Some(chain.hops[i + 1].timestamp[1] - chain.hops[i].timestamp[1])
                ELSE Absent

C5_Witness ==
    /\ Returned /\ Len(chain.hops) = 3
    /\ chain.hops[1].hopDurationMs # Absent /\ chain.hops[1].hopDurationMs[1] < 0
    /\ chain.hops[2].timestamp # Absent /\ chain.hops[3].timestamp = Absent
    /\ chain.hops[2].hopDurationMs = Absent

\* C6 as stated: every hopDurationMs present in a returned hop is
\* non-negative.
C6_DurationNonNegative ==
    Returned => \A i \in Durations : chain.hops[i].hopDurationMs[1] >= 0

\* the dates of the headers the hops come from do not increase down the
\* document, wherever two neighbours both have a date
NewestFirst ==
    \A j \in 1..(Len(ParseableLines) - 1) :
        (HasTimestamp(ParseableLines[j]) /\ HasTimestamp(ParseableLines[j + 1])) =>
            TimeOf(ParseableLines[j]) >= TimeOf(ParseableLines[j + 1])

\* C6 as amended: every hopDurationMs present is non-negative when the text
\* lists its headers newest first; a header that is dated earlier than the
\* one below it gives a negative hopDurationMs, which is kept.
C6_DurationSign ==
    Returned =>
        /\ NewestFirst => \A i \in Durations : chain.hops[i].hopDurationMs[1] >= 0
        /\ ~NewestFirst => \E i \in Durations : chain.hops[i].hopDurationMs[1] < 0

C6_Witness ==
    /\ Returned /\ NewestFirst /\ Len(ParseableLines) >= 2
    /\ \E i \in Durations : chain.hops[i].hopDurationMs[1] > 0

\* the document is one Received header folded across three physical lines
OneFoldedHeader ==
    /\ Len(doc.lines) = 1
    /\ doc.lines[1].name = "Received:" /\ doc.lines[1].fold /\ GrammarOK(doc.lines[1])

\* C7: one Received header folded across three physical lines, continuation
\* lines indented with a tab, gives exactly one hop whose from and by are the
\* host tokens of the header, with CRLF line breaks and with bare LF.
C7_FoldedHeaderOneHop ==
    (Returned /\ OneFoldedHeader) =>
        /\ Len(chain.hops) = 1
        /\ chain.hops[1].from = Spaced(doc.lines[1].from)
        /\ chain.hops[1].by = Spaced(doc.lines[1].by)

C7_Witness ==
    /\ Returned /\ OneFoldedHeader /\ doc.eol = <<"LF">>
    /\ Len(chain.hops) = 1 /\ chain.hops[1].by = <<"mx.example.net">>

\* C8: a selected value that does not match the hop grammar gives no hop and
\* does not stop the others: there are as many hops as selected values that
\* match, and no hop has an empty from or by.
C8_MalformedDropped ==
    (Returned /\ IsString) =>
        /\ Len(chain.hops) = Len(ParseableLines)
        /\ \A i \in 1..Len(chain.hops) :
               chain.hops[i].from # <<>> /\ chain.hops[i].by # <<>>

C8_Witness ==
    /\ Returned /\ Len(SelectedLines) = 3 /\ Len(ParseableLines) = 1
    /\ ~GrammarOK(SelectedLines[1]) /\ ~GrammarOK(SelectedLines[3])
    /\ Len(chain.hops) = 1 /\ chain.hops[1].from = Spaced(SelectedLines[2].from)

\* what the hops say of the lines they come from, oldest first
ExpectedHops(lines) ==
    LET r == Reverse(lines)
    IN  [i \in 1..Len(r) |->
            [from |-> Spaced(r[i].from), by |-> Spaced(r[i].by),
             timestamp |-> DateGetTime(r[i].date)]]

ReturnedHops ==
    [i \in 1..Len(chain.hops) |->
        [from |-> chain.hops[i].from, by |-> chain.hops[i].by,
         timestamp |-> chain.hops[i].timestamp]]

HasReceived == Named(doc.lines, "Received:") # <<>>
HasXReceived == Named(doc.lines, "X-Received:") # <<>>

WarningSet == {chain.warnings[i] : i \in 1..Len(chain.warnings)}

\* the parser falls back to X-Received exactly when there is no Received
\* header, and records the given warning exactly then
FallbackRecords(warning) ==
    (ReturnedWithWarnings /\ IsString) =>
        /\ (~HasReceived /\ HasXReceived) =>
               /\ ReturnedHops = ExpectedHops(SelectSeq(Named(doc.lines, "X-Received:"), GrammarOK))
               /\ warning \in WarningSet
        /\ HasReceived =>
               /\ ReturnedHops = ExpectedHops(SelectSeq(Named(doc.lines, "Received:"), GrammarOK))
               /\ warning \notin WarningSet

\* C9 as stated: without a Received header but with an X-Received header the
\* hops are parsed from the X-Received values and the warning "Used
\* X-Received headers" is recorded; with a Received header the X-Received
\* values are not used and the warning is not recorded.
C9_FallbackWarningAsStated == FallbackRecords("Used X-Received headers")

\* C9 as amended: the same, the warning recorded being "Used X-Received
\* headers (Gmail)".
C9_FallbackWarning == FallbackRecords(UsedXReceived)

C9_Witness ==
    /\ ReturnedWithWarnings /\ ~HasReceived /\ HasXReceived
    /\ Len(doc.lines) = 3 /\ Len(chain.hops) = 1
    /\ chain.warnings = <<UsedXReceived>>

----------------------------------------------------------------------------
(* Classifier run: detectESP is called on a headers object *)

Frag(kind, dom) == [kind |-> kind, dom |-> dom]
Text == <<Frag("word", "")>>

\* a header whose value is a single string
One(name, value) == [name |-> name, value |-> <<value>>]

\* a header whose value is an array of strings, the most recent one first
Many(name, values) == [name |-> name, value |-> values]

HeaderEntries ==
    {One(<<"DKIM", "Signature">>, <<Frag("d=", "amazonses.com")>>),
     One(<<"DKIM", "Signature">>, <<Frag("d=", "SendGrid.NET")>>),
     One(<<"dkim", "signature">>, <<Frag("d=", "example.com")>>),
     One(<<"Received">>, <<Frag("host", "sendgrid.net")>>),
     Many(<<"Received">>, << <<Frag("host", "mailgun.org")>>,
                             <<Frag("host", "amazonses.com")>> >>),
     One(<<"Received">>, <<Frag("host", "example.com")>>),
     One(<<"received">>, <<Frag("host", "protection.outlook.com")>>),
     One(<<"Return", "Path">>, <<Frag("angle", "mailgun.org")>>),
     One(<<"X", "SG", "EID">>, Text),
     One(<<"X", "SG", "Id">>, Text),
     One(<<"X", "Mailgun", "Msg", "Id">>, Text),
     One(<<"X", "SP", "Tag">>, Text),
     One(<<"Authentication", "Results">>, <<Frag("spf", "sendgrid.net")>>),
     Many(<<"Authentication", "Results">>, << Text, <<Frag("spf", "mailgun.org")>> >>),
     One(<<"authentication", "results">>,
         <<Frag("spfbare", ""), Frag("paren", "mailgun.org")>>),
     One(<<"Subject">>, Text)}

MessageIds ==
    {Absent, Some(Frag("angle", "sendgrid.net")), Some(Frag("angle", "mail.gmail.com")),
     Some(Frag("addr", "amazonses.com"))}

\* the keys of an object are distinct
DistinctNames(entries) ==
    \A i, j \in 1..Len(entries) : i # j => entries[i].name # entries[j].name

InitDetect ==
    /\ text = <<>>
    /\ unfolds = 0
    /\ doc = NoDoc
    /\ rawHeaders = Str(<<>>)
    /\ pcChain = "idle"
    /\ chain = None
    /\ ServiceIdle
    /\ headers \in {h \in SeqsUpTo(HeaderEntries, MaxEntries) : DistinctNames(h)}
    /\ messageId \in MessageIds
    /\ pcDetect = "start"
    /\ detection = None
    /\ WatchIdle

CallDetectESP ==
    /\ pcDetect = "start"
    /\ pcDetect' = "done"
    /\ detection' = detectESP(headers, messageId)
    /\ UNCHANGED <<serviceVars, unfoldVars, parserVars, headers, messageId, watchVars>>

NextDetect == CallDetectESP

SpecDetect == InitDetect /\ [][NextDetect]_vars

Detected == pcDetect = "done"

\* the weight of the match a reason reports
ReasonWeight(reason) ==
    CASE reason.kind = "DKIM d=" -> 5
      [] reason.kind = "Received via" -> 4
      [] reason.kind = "Message-ID domain" -> 3
      [] reason.kind = "present" -> 3
      [] reason.kind = "Return-Path domain" -> 2
      [] reason.kind = "SPF domain" -> 1

\* the provider a reason speaks for
ReasonProvider(reason) ==
    IF reason.kind = "present" THEN SignalProvider(reason.value)[1]
    ELSE ProviderOf(reason.value)[1]

RECURSIVE ScoreInReasons(_, _)
\* the score the reasons account for, for one provider
ScoreInReasons(reasons, provider) ==
    IF reasons = <<>> THEN 0
    ELSE (IF ReasonProvider(Head(reasons)) = provider THEN ReasonWeight(Head(reasons)) ELSE 0)
         + ScoreInReasons(Tail(reasons), provider)

WinnerScore == ScoreInReasons(detection.reasons, detection.provider)

\* C10: detectESP returns confidence = min(1, bestScore / 10), bestScore
\* being the accumulated score of the provider it returns, so the confidence
\* lies in [0, 1] (here in tenths: min(10, bestScore), within 0..10).
C10_ConfidenceCapped ==
    Detected =>
        /\ detection.confidence = (IF WinnerScore < 10 THEN WinnerScore ELSE 10)
        /\ detection.confidence \in 0..10

C10_Witness ==
    /\ Detected /\ WinnerScore > 10 /\ detection.confidence = 10
    /\ detection.provider = "SendGrid"

----------------------------------------------------------------------------
(* The signals of the input of a classifier run, read off the headers *)

KnownDomains == {DOMAIN_TO_PROVIDER[i][1] : i \in 1..Len(DOMAIN_TO_PROVIDER)}

\* the text of header entry i, and its name in lower case
TextOf(i) == JoinValues(headers[i].value)
NameOf(i) == LowerName(headers[i].name)

\* the domains, in lower case, that the fragments of the given kinds mention
DomainsOf(value, kinds) ==
    {ToLowerCase(value[k].dom) : k \in {j \in 1..Len(value) : value[j].kind \in kinds}}

DomainKinds == {"d=", "host", "angle", "addr", "spf", "spfnote", "paren"}

\* the text mentions a configured domain, as a whole domain or inside a
\* longer host name
MentionsKnown(value, kinds) ==
    \E d \in DomainsOf(value, kinds), k \in KnownDomains : DomainIncludes(d, k)

\* no DKIM-Signature, Received, Return-Path or Authentication-Results header
\* mentions a configured domain
HeadersUnmapped ==
    \A i \in 1..Len(headers) :
        NameOf(i) \in {<<"dkim", "signature">>, <<"received">>, <<"return", "path">>,
                       <<"authentication", "results">>}
            => ~MentionsKnown(TextOf(i), DomainKinds)

\* the message id mentions no configured domain
MessageIdUnmapped ==
    messageId = Absent \/ ~MentionsKnown(messageId, DomainKinds)

\* no header name gives a signal that the classifier credits to a provider
XHeadersUnmapped ==
    \A i \in 1..Len(headers) :
        \A k \in 1..Len(SignalsOfName(NameOf(i))) :
            SignalProvider(SignalsOfName(NameOf(i))[k]) = Absent

\* C11: when no signal maps to a known provider (no headers at all, or only
\* unmapped domains in DKIM, Received, Message-ID, Return-Path and SPF and no
\* provider X-header), detectESP returns "Unknown" with confidence exactly 0.
C11_UnknownWhenUnmapped ==
    (Detected /\ HeadersUnmapped /\ MessageIdUnmapped /\ XHeadersUnmapped) =>
        /\ detection.provider = "Unknown"
        /\ detection.confidence = 0

C11_Witness ==
    /\ Detected /\ HeadersUnmapped /\ MessageIdUnmapped /\ XHeadersUnmapped
    /\ Len(headers) = 3
    /\ \E i \in 1..3 : NameOf(i) = <<"received">>
    /\ \E i \in 1..3 : NameOf(i) = <<"dkim", "signature">>
    /\ \E i \in 1..3 : NameOf(i) = <<"x", "sp", "tag">>
    /\ detection.provider = "Unknown" /\ detection.confidence = 0

\* the score the returned reasons account for, for one provider
ScoreOf(provider) == ScoreInReasons(detection.reasons, provider)

\* some DKIM-Signature header has the tag d=amazonses.com
HasDkimAmazonSes ==
    \E i \in 1..Len(headers) :
        /\ NameOf(i) = <<"dkim", "signature">>
        /\ "amazonses.com" \in DomainsOf(TextOf(i), {"d="})

\* the DKIM-Signature headers that have a d= tag, in the order of the keys
DkimTagged ==
    {i \in 1..Len(headers) :
        NameOf(i) = <<"dkim", "signature">> /\ DomainsOf(TextOf(i), {"d="}) # {}}

\* the first d= tag of the DKIM-Signature headers is d=amazonses.com
FirstDkimIsAmazonSes ==
    /\ DkimTagged # {}
    /\ LET i == CHOOSE m \in DkimTagged : \A n \in DkimTagged : m <= n
           v == TextOf(i)
           k == CHOOSE m \in 1..Len(v) :
                    v[m].kind = "d=" /\ \A n \in 1..(m - 1) : v[n].kind # "d="
       IN  ToLowerCase(v[k].dom) = "amazonses.com"

\* C12 as stated: whenever the headers contain a DKIM-Signature header with
\* d=amazonses.com, whatever else is present, detectESP returns "Amazon SES"
\* with confidence >= 0.5 (5 tenths).
C12_DkimAmazonSesWins ==
    (Detected /\ HasDkimAmazonSes) =>
        /\ detection.provider = "Amazon SES"
        /\ detection.confidence >= 5

\* C12 as amended: when the first d= tag of the DKIM-Signature headers is
\* d=amazonses.com the confidence is >= 0.5, and the provider is "Amazon SES"
\* unless another provider has accumulated a strictly higher score.
C12_DkimAmazonSesScores ==
    (Detected /\ FirstDkimIsAmazonSes) =>
        /\ detection.confidence >= 5
        /\ ScoreOf("Amazon SES") >= 5
        /\ \/ detection.provider = "Amazon SES"
           \/ ScoreOf(detection.provider) > ScoreOf("Amazon SES")

C12_Witness ==
    /\ Detected /\ FirstDkimIsAmazonSes
    /\ ScoreOf("Amazon SES") = 5 /\ ScoreOf("SendGrid") = 5
    /\ detection.provider = "Amazon SES" /\ detection.confidence = 5

\* no header of the given names mentions a configured domain
UnmappedIn(names) ==
    \A i \in 1..Len(headers) :
        NameOf(i) \in names => ~MentionsKnown(TextOf(i), DomainKinds)

\* the Authentication-Results values the classifier reads
AuthValues ==
    getAll(headersToMap([i \in 1..Len(headers) |-> [name |-> NameOf(i), value |-> TextOf(i)]]),
           <<"authentication", "results">>)

\* the SPF qualifier of the input is a configured domain
SpfQualifierKnown ==
    LET q == parseAuthenticationResults(AuthValues).domain
    IN  q # Absent /\ Len(q[1]) = 1 /\ q[1][1] \in KnownDomains

\* SPF is the only signal of the input that maps to a provider
OnlySpfMaps ==
    /\ UnmappedIn({<<"dkim", "signature">>, <<"received">>, <<"return", "path">>})
    /\ MessageIdUnmapped
    /\ XHeadersUnmapped
    /\ SpfQualifierKnown

\* C13: when the only signal that maps to a provider is the SPF qualifier
\* domain of Authentication-Results, the confidence is 0.1 (1 tenth), below
\* 0.6, and the provider is the one of that domain.
C13_SpfOnlyBelowThreshold ==
    (Detected /\ OnlySpfMaps) =>
        /\ detection.confidence = 1
        /\ detection.confidence < 6
        /\ Some(detection.provider) =
               ProviderOf(parseAuthenticationResults(AuthValues).domain[1][1])

C13_Witness ==
    /\ Detected /\ OnlySpfMaps /\ Len(headers) = 3
    /\ \E i \in 1..3 : NameOf(i) = <<"dkim", "signature">>
    /\ \E i \in 1..3 : NameOf(i) = <<"received">>
    /\ detection.provider = "SendGrid" /\ detection.confidence = 1

\* the providers that the returned reasons speak for, and the best of them
ScoredProviders ==
    {ReasonProvider(detection.reasons[i]) : i \in 1..Len(detection.reasons)}

TopProviders ==
    {p \in ScoredProviders : \A q \in ScoredProviders : ScoreOf(p) >= ScoreOf(q)}

\* the place of the signal families in the order of the claim, and in the
\* order in which detectESP evaluates them
StatedOrder ==
    [kind \in {"DKIM d=", "Received via", "Message-ID domain", "present",
               "Return-Path domain", "SPF domain"} |->
        CASE kind = "DKIM d=" -> 1
          [] kind = "Received via" -> 2
          [] kind = "Message-ID domain" -> 3
          [] kind = "present" -> 4
          [] kind = "Return-Path domain" -> 5
          [] kind = "SPF domain" -> 6]

EvaluationOrder ==
    [StatedOrder EXCEPT !["Return-Path domain"] = 4, !["present"] = 5]

\* where a provider is first encountered: the family of its first match in
\* the given order, then the place of that match within the family
FirstEncounter(provider, order) ==
    LET at == {order[detection.reasons[i].kind] * (Len(detection.reasons) + 1) + i :
                  i \in {j \in 1..Len(detection.reasons) :
                            ReasonProvider(detection.reasons[j]) = provider}}
    IN  CHOOSE k \in at : \A l \in at : k <= l

\* the provider with the highest score, the first encountered one on a tie
TieWinner(order) ==
    IF ScoredProviders = {} THEN "Unknown"
    ELSE CHOOSE p \in TopProviders :
             \A q \in TopProviders : FirstEncounter(p, order) <= FirstEncounter(q, order)

\* C14 as stated: detectESP returns the provider with the highest score, and
\* on a tie the one first encountered in the order DKIM, Received,
\* Message-ID, X-headers, Return-Path, SPF.
C14_TieOrderAsStated == Detected => detection.provider = TieWinner(StatedOrder)

\* C14 as amended: the same, the order being DKIM, Received, Message-ID,
\* Return-Path, X-headers, SPF.
C14_TieOrder == Detected => detection.provider = TieWinner(EvaluationOrder)

C14_Witness ==
    /\ Detected
    /\ ScoreOf("Mailgun") = 3 /\ ScoreOf("SendGrid") = 3
    /\ TopProviders = {"Mailgun", "SendGrid"}
    /\ \E i \in 1..Len(detection.reasons) : detection.reasons[i].kind = "present"
    /\ \E i \in 1..Len(detection.reasons) : detection.reasons[i].kind = "Return-Path domain"
    /\ detection.provider = "Mailgun"

\* the headers of the input as the classifier groups them by name
InputMap ==
    headersToMap([i \in 1..Len(headers) |-> [name |-> NameOf(i), value |-> TextOf(i)]])

\* the reason of a domain signal, if the domain is configured
MatchOf(kind, domain) ==
    IF domain # Absent /\ domain[1] \in KnownDomains
    THEN <<[kind |-> kind, value |-> domain[1]]>> ELSE <<>>

RECURSIVE ReceivedMatches(_)
\* one match per Received value that includes a configured domain
ReceivedMatches(values) ==
    IF values = <<>> THEN <<>>
    ELSE (IF MentionsKnown(Head(values), DomainKinds)
          THEN <<[kind |-> "Received via",
                  value |-> DOMAIN_TO_PROVIDER[FirstDomainIn(Head(values))][1]]>>
          ELSE <<>>) \o ReceivedMatches(Tail(values))

RECURSIVE SignalMatches(_)
\* one match per X-header signal that belongs to a provider
SignalMatches(signals) ==
    IF signals = <<>> THEN <<>>
    ELSE (IF SignalProvider(Head(signals)) # Absent
          THEN <<[kind |-> "present", value |-> Head(signals)]>> ELSE <<>>)
         \o SignalMatches(Tail(signals))

\* the contributing matches of the input, family by family in the order in
\* which they are detected
ContributingMatches ==
    MatchOf("DKIM d=", extractDkimD(getAll(InputMap, <<"dkim", "signature">>)))
    \o ReceivedMatches(getAll(InputMap, <<"received">>))
    \o MatchOf("Message-ID domain", extractMessageIdDomain(messageId))
    \o MatchOf("Return-Path domain",
               IF getAll(InputMap, <<"return", "path">>) = <<>> THEN Absent
               ELSE extractReturnPathDomain(getAll(InputMap, <<"return", "path">>)[1]))
    \o SignalMatches(extractXProviderSignals(InputMap))
    \o (IF SpfQualifierKnown
        THEN MatchOf("SPF domain", Some(parseAuthenticationResults(AuthValues).domain[1][1]))
        ELSE <<>>)

\* C15: the reasons list has exactly one entry per contributing match, for
\* the winner and for the other providers, and no other entry, in the order
\* in which the matches are detected whatever their weights.
C15_ReasonsAreMatches ==
    Detected => detection.reasons = ContributingMatches

C15_Witness ==
    /\ Detected /\ Len(detection.reasons) = 4
    /\ detection.reasons[1].kind = "Received via"
    /\ detection.reasons[2].kind = "Message-ID domain"
    /\ detection.reasons[3].kind = "present"
    /\ detection.reasons[4].kind = "SPF domain"
    /\ ReasonProvider(detection.reasons[4]) # detection.provider
    /\ ReasonProvider(detection.reasons[2]) = ReasonProvider(detection.reasons[3])

\* the input without the later (older) values of its Authentication-Results
\* headers
FirstAuthOnly(hdrs) ==
    [i \in 1..Len(hdrs) |->
        IF LowerName(hdrs[i].name) = <<"authentication", "results">> /\ Len(hdrs[i].value) > 1
        THEN [hdrs[i] EXCEPT !.value = <<hdrs[i].value[1]>>]
        ELSE hdrs[i]]

\* C16: the SPF contribution and the detection result depend only on the
\* first (most recent) Authentication-Results value: an input and the same
\* input without its later Authentication-Results values are classified
\* alike.
C16_FirstAuthResultsOnly ==
    Detected => detection = detectESP(FirstAuthOnly(headers), messageId)

----------------------------------------------------------------------------
(* Watcher run: ImapService.watchForSubject polls the mailboxes for a      *)
(* message whose subject contains the token.  A message is named by its    *)
(* UID; of two messages of a mailbox the one with the larger UID arrived   *)
(* later.                                                                  *)

Uids == 1..MaxUid

InitWatch ==
    /\ text = <<>>
    /\ unfolds = 0
    /\ doc = NoDoc
    /\ rawHeaders = Str(<<>>)
    /\ pcChain = "idle"
    /\ chain = None
    /\ ServiceIdle
    /\ DetectIdle
    /\ mailboxes = [m \in MailboxNames |-> {}]
    /\ watchPc = "polling"
    /\ located = None
    /\ iterations = 0

\* Math.max(...searchResults)
Newest(searchResults) == CHOOSE u \in searchResults : \A v \in searchResults : u >= v

\* the first mailbox, in the order of searchMailboxes, whose search neither
\* fails nor comes back empty; 0 if there is none
FirstHit(failing) ==
    LET hits == {i \in 1..Len(searchMailboxes) :
                    /\ searchMailboxes[i] \notin failing
                    /\ mailboxes[searchMailboxes[i]] # {}}
    IN  IF hits = {} THEN 0 ELSE CHOOSE i \in hits : \A j \in hits : i <= j

\* one iteration of the loop that finds a message: the mailboxes in failing
\* are those whose lock or search throws, which the loop skips
PollLocates ==
    /\ watchPc = "polling"
    /\ iterations < MaxIterations
    /\ \E failing \in SUBSET MailboxNames :
          /\ FirstHit(failing) > 0
          /\ located' = [mailbox |-> searchMailboxes[FirstHit(failing)],
                         uid |-> Newest(mailboxes[searchMailboxes[FirstHit(failing)]])]
    /\ watchPc' = "located"
    /\ UNCHANGED <<serviceVars, unfoldVars, parserVars, detectVars, mailboxes, iterations>>

\* one iteration that finds nothing, or that ends in the catch of the loop,
\* and waits for the next one
PollFindsNothing ==
    /\ watchPc = "polling"
    /\ iterations < MaxIterations
    /\ \E failing \in SUBSET MailboxNames : FirstHit(failing) = 0
    /\ iterations' = iterations + 1
    /\ UNCHANGED <<serviceVars, unfoldVars, parserVars, detectVars, mailboxes, watchPc, located>>

\* maxWaitTime has passed: the watcher throws
WatchTimeout ==
    /\ watchPc = "polling"
    /\ iterations >= MaxIterations
    /\ watchPc' = "timeout"
    /\ UNCHANGED <<serviceVars, unfoldVars, parserVars, detectVars, mailboxes, located, iterations>>

\* a matching message arrives in a mailbox while the watcher is polling
Deliver(mailbox, uid) ==
    /\ watchPc = "polling"
    /\ \A u \in mailboxes[mailbox] : u < uid
    /\ mailboxes' = [mailboxes EXCEPT ![mailbox] = @ \cup {uid}]
    /\ UNCHANGED <<serviceVars, unfoldVars, parserVars, detectVars, watchPc, located, iterations>>

NextWatch ==
    \/ PollLocates
    \/ PollFindsNothing
    \/ WatchTimeout
    \/ \E mailbox \in MailboxNames, uid \in Uids : Deliver(mailbox, uid)

SpecWatch == InitWatch /\ [][NextWatch]_vars

\* the earliest of the messages
Earliest(uids) == CHOOSE u \in uids : \A v \in uids : u <= v

\* C17: only the first email matching the subject is analysed: when several
\* matching messages are in a mailbox at the moment the watcher searches it,
\* the message located is the earliest of them.
C17_EarliestLocated ==
    watchPc = "located" => located.uid = Earliest(mailboxes[located.mailbox])

----------------------------------------------------------------------------
(* Parser run: the order of the hops and the hops without a timestamp *)

\* the fields RX reads from a header line
FieldsOfLine(line) ==
    [from |-> Spaced(line.from), by |-> Spaced(line.by), with |-> Spaced(line.with),
     id |-> Spaced(line.id), for |-> Spaced(line.for),
     timestamp |-> DateGetTime(line.date)]

\* the same fields of a hop
FieldsOfHop(hop) ==
    [from |-> hop.from, by |-> hop.by, with |-> hop.with, id |-> hop.id,
     for |-> hop.for, timestamp |-> hop.timestamp]

\* C18: the hops are exactly the selected header values that parse, in
\* reverse document order: hops[0] comes from the last parseable header of
\* the text and the last hop from the first one, whatever the timestamps.
C18_ReverseDocumentOrder ==
    (Returned /\ IsString) =>
        /\ Len(chain.hops) = Len(ParseableLines)
        /\ \A i \in 1..Len(chain.hops) :
               FieldsOfHop(chain.hops[i]) =
                   FieldsOfLine(ParseableLines[Len(ParseableLines) + 1 - i])

C18_Witness ==
    /\ Returned /\ Len(doc.lines) = 3 /\ Len(chain.hops) = 3
    /\ \A i \in 1..3 : chain.hops[i].timestamp # Absent
    /\ chain.hops[1].timestamp[1] > chain.hops[2].timestamp[1]
    /\ chain.hops[2].timestamp[1] < chain.hops[3].timestamp[1]
    /\ chain.hops[3].with = <<"SMTP">>

\* the parseable selected lines whose date text is not a date
Undated == {j \in 1..Len(ParseableLines) : ~HasTimestamp(ParseableLines[j])}

\* the place in the chain of the hop of parseable line j
PlaceOf(j) == Len(ParseableLines) + 1 - j

\* C19: a Received value that matches the grammar but whose date-time does
\* not parse still yields a hop: the hop keeps its place in the chain, its
\* timestamp is unset, and neither it nor the hop before it has a
\* hopDurationMs.
C19_UndatedHopKept ==
    (Returned /\ IsString) =>
        /\ Len(chain.hops) = Len(ParseableLines)
        /\ \A j \in Undated :
               /\ chain.hops[PlaceOf(j)].from = Spaced(ParseableLines[j].from)
               /\ chain.hops[PlaceOf(j)].timestamp = Absent
               /\ chain.hops[PlaceOf(j)].hopDurationMs = Absent
               /\ PlaceOf(j) > 1 => chain.hops[PlaceOf(j) - 1].hopDurationMs = Absent

C19_Witness ==
    /\ Returned /\ Len(ParseableLines) = 3 /\ Undated = {2}
    /\ Len(chain.hops) = 3
    /\ chain.hops[1].timestamp # Absent /\ chain.hops[3].timestamp # Absent
    /\ chain.hops[2].timestamp = Absent
    /\ chain.hops[1].hopDurationMs = Absent /\ chain.hops[2].hopDurationMs = Absent

----------------------------------------------------------------------------
(* Classifier run: the Received values *)

\* the Received header values of the input, one per string of each Received
\* entry, in the order of the input
ReceivedValuesOfInput ==
    LET entries == SelectSeq(headers, LAMBDA h : LowerName(h.name) = <<"received">>)
    IN  Flatten([i \in 1..Len(entries) |-> entries[i].value])

\* the reasons of the Received family in the result
ReceivedReasons == SelectSeq(detection.reasons, LAMBDA r : r.kind = "Received via")

\* C20: Received values are scored independently: each Received value that
\* contains a configured domain adds +4 to the provider of its first
\* matching domain, so k such values give k contributions of +4.
C20_ReceivedScoredPerValue ==
    Detected => ReceivedReasons = ReceivedMatches(ReceivedValuesOfInput)

----------------------------------------------------------------------------
(* Classifier run: the provider X-header families *)

\* the families of provider X-headers: the prefix of the header name, the
\* label of the signals of the family, and the provider of the family
XFamilies ==
    {[prefix |-> <<"x", "sg">>, label |-> "X-SG-", provider |-> "SendGrid"],
     [prefix |-> <<"x", "mailgun">>, label |-> "X-Mailgun-", provider |-> "Mailgun"],
     [prefix |-> <<"x", "mj">>, label |-> "X-MJ-", provider |-> "Mailjet"],
     [prefix |-> <<"x", "ses">>, label |-> "X-SES-", provider |-> "Amazon SES"],
     [prefix |-> <<"x", "ms", "exchange">>, label |-> "X-MS-Exchange-",
      provider |-> "Microsoft 365/Outlook"],
     [prefix |-> <<"x", "pm">>, label |-> "X-PM-", provider |-> "Postmark"],
     [prefix |-> <<"x", "sp">>, label |-> "X-SP-", provider |-> "SparkPost"]}

\* the input has a header of the family
FamilyPresent(family) ==
    \E i \in 1..Len(headers) : StartsWith(NameOf(i), family.prefix)

\* the X-header reasons of the result, and what they add to a provider
PresentReasons == SelectSeq(detection.reasons, LAMBDA r : r.kind = "present")

XScoreOf(provider) ==
    3 * Cardinality({i \in 1..Len(PresentReasons) :
                        ReasonProvider(PresentReasons[i]) = provider})

\* C21: for each provider X-header prefix (x-sg-, x-mailgun-, x-mj-, x-ses-,
\* x-ms-exchange-, x-pm-, x-sp-) the presence of one or more headers with the
\* prefix adds exactly 3 to the provider of the family, however many headers
\* of the family there are.
C21_FamilyAddsThree ==
    Detected =>
        \A family \in XFamilies :
            FamilyPresent(family) => XScoreOf(family.provider) = 3

\* the provider of the family a signal belongs to
FamilyProviderOf(signal) ==
    (CHOOSE family \in XFamilies : family.label = signal.label).provider

\* C25: a provider X-header adds its +3 only to the provider of the prefix
\* its name starts with, and never to another provider, whatever the rest of
\* the header name is.
C25_CreditsOwnFamily ==
    Detected =>
        \A i \in 1..Len(PresentReasons) :
            ReasonProvider(PresentReasons[i]) = FamilyProviderOf(PresentReasons[i].value)

\* C24: in every result of detectESP the conditions provider = "Unknown",
\* confidence = 0 and reasons = [] hold together or not at all.
C24_UnknownZeroEmpty ==
    Detected =>
        /\ (detection.provider = "Unknown") <=> (detection.confidence = 0)
        /\ (detection.confidence = 0) <=> (detection.reasons = <<>>)

C24_Witness ==
    /\ Detected /\ Len(headers) = 3
    /\ detection.signals.x_headers # <<>> /\ detection.signals.dkim_d # Absent
    /\ detection.provider = "Unknown" /\ detection.confidence = 0
    /\ detection.reasons = <<>>

----------------------------------------------------------------------------
(* Parser run: the results without hops *)

\* the parser has returned a result without hops
EmptyResult == ReturnedWithWarnings /\ ~chain.threw /\ chain.hops = <<>>

\* C23 as stated: whenever the parser returns an empty hops list the result
\* carries a non-empty warnings list, also when Received headers are present
\* but none of them matches the hop grammar.
C23_EmptyHopsAlwaysWarned == EmptyResult => chain.warnings # <<>>

\* C23 as amended: a result with an empty hops list carries a non-empty
\* warnings list exactly when the text has no Received header; when Received
\* headers are present but none matches the hop grammar the values are
\* dropped silently and the result has no warnings.
C23_EmptyHopsWarnedUnlessReceived ==
    (EmptyResult /\ IsString) => (chain.warnings # <<>> <=> ~HasReceived)

C23_Witness ==
    /\ EmptyResult /\ Len(Named(doc.lines, "Received:")) = 2
    /\ ParseableLines = <<>> /\ chain.warnings = <<>>

----------------------------------------------------------------------------
(* header-utils: splitHeaderBlocks *)

\* name.toLowerCase() on a text of words and whitespace
LowerText(s) == [i \in 1..Len(s) |-> IF s[i] \in Space THEN s[i] ELSE ToLowerCase(s[i])]

\* trimmed.match(/^([^:]+):\s*(.*)$/): the name runs to the first colon and
\* is not empty; the dot matches no line terminator, so the rest after the
\* whitespace that follows the colon holds none
HeaderMatch(trimmed) ==
    LET colons == {i \in 1..Len(trimmed) : trimmed[i] = ":"}
        c == IF colons = {} THEN 0 ELSE CHOOSE i \in colons : \A j \in colons : i <= j
        rest == IF c = 0 THEN <<>> ELSE TrimStart(SubSeq(trimmed, c + 1, Len(trimmed)))
    IN  IF c <= 1 \/ \E i \in 1..Len(rest) : rest[i] \in {"CR", "LF"}
        THEN NoMatch
        ELSE [ok |-> TRUE, name |-> SubSeq(trimmed, 1, c - 1), value |-> rest]

\* the header a matching line starts
StartHeader(m) == [name |-> Trim(LowerText(m.name)), value |-> Trim(m.value)]

\* a continuation line glued to the value without a separator
Continue_NoSeparator(currentHeader, trimmed) ==
    [currentHeader EXCEPT !.value = @ \o trimmed]

\* currentHeader.value += ' ' + trimmed
Continue(currentHeader, trimmed) ==
    [currentHeader EXCEPT !.value = @ \o <<"SP">> \o trimmed]

\* headers after the push of the previous header, if there is one
PushCurrent(hdrs, currentHeader) ==
    IF currentHeader = Absent THEN hdrs ELSE Append(hdrs, currentHeader[1])

RECURSIVE SplitLoop(_, _, _)
\* the loop over the lines and the push of the last header: currentHeader
\* is Absent for null
SplitLoop(lines, hdrs, currentHeader) ==
    IF lines = <<>> THEN PushCurrent(hdrs, currentHeader)
    ELSE LET trimmed == Trim(Head(lines))
             m == IF trimmed = <<>> THEN NoMatch ELSE HeaderMatch(trimmed)
             step == IF trimmed = <<>> THEN <<hdrs, currentHeader>>
                     ELSE IF m.ok
                     THEN <<PushCurrent(hdrs, currentHeader), Some(StartHeader(m))>>
                     ELSE IF currentHeader # Absent
                     THEN <<hdrs, Some(Continue(currentHeader[1], trimmed))>>
                     ELSE <<hdrs, currentHeader>>
         IN  SplitLoop(Tail(lines), step[1], step[2])

splitHeaderBlocks(s) == SplitLoop(SplitOnBreaks(s, 1, <<>>, FALSE), <<>>, Absent)

----------------------------------------------------------------------------
(* Split run: one call of splitHeaderBlocks on a text of a few lines *)

MaxLines == 3     \* most lines in a text of the split run

\* the lines a text is written from: header lines with and without a value,
\* a name in upper case, a name followed by a space, a value that holds a
\* colon, continuation lines, a line that starts with a colon, a header
\* line with a bare carriage return in its value, and blank lines
SplitLineShapes ==
    {<<"to", ":", "v">>,
     <<"Subject", ":", "SP", "Path">>,
     <<"to", ":">>,
     <<"Subject", "SP", ":", "v", ":", "v">>,
     <<"v">>,
     <<"SP", "Path", "TAB">>,
     <<":", "v">>,
     <<"to", ":", "v", "CR", "v">>,
     <<>>,
     <<"SP">>}

RECURSIVE JoinLines(_, _)
\* lines.join(eol)
JoinLines(lines, eol) ==
    IF lines = <<>> THEN <<>>
    ELSE IF Len(lines) = 1 THEN lines[1]
    ELSE lines[1] \o eol \o JoinLines(Tail(lines), eol)

\* no parser, classifier or watcher call is in progress
AnalysisIdle ==
    /\ text = <<>>
    /\ unfolds = 0
    /\ doc = NoDoc
    /\ rawHeaders = Str(<<>>)
    /\ pcChain = "idle"
    /\ chain = None
    /\ DetectIdle
    /\ WatchIdle

InitSplit ==
    /\ AnalysisIdle
    /\ written \in SeqsUpTo(SplitLineShapes, MaxLines)
    /\ \E eol \in LineBreaks : unfoldedText = JoinLines(written, eol)
    /\ pcSplit = "start"
    /\ splitBlocks = <<>>
    /\ SessionIdle
    /\ ConnectIdle

CallSplitHeaderBlocks ==
    /\ pcSplit = "start"
    /\ pcSplit' = "done"
    /\ splitBlocks' = splitHeaderBlocks(unfoldedText)
    /\ UNCHANGED <<unfoldVars, parserVars, detectVars, watchVars, written, unfoldedText,
                   sessionVars, connectVars>>

NextSplit == CallSplitHeaderBlocks

SpecSplit == InitSplit /\ [][NextSplit]_vars

\* line i of the text looks like a header: after trimming it is a name, a
\* colon and a value
HeaderLooking(i) == Trim(written[i]) # <<>> /\ HeaderMatch(Trim(written[i])).ok

HeaderLikeLines == {i \in 1..Len(written) : HeaderLooking(i)}

\* the k-th header-looking line of the text
NthHeaderLine(k) ==
    CHOOSE i \in HeaderLikeLines : Cardinality({j \in HeaderLikeLines : j < i}) = k - 1

RECURSIVE Continuations(_)
\* the non-blank lines from line j up to the next header-looking line, each
\* trimmed and preceded by one space
Continuations(j) ==
    IF j > Len(written) \/ HeaderLooking(j) THEN <<>>
    ELSE (IF Trim(written[j]) = <<>> THEN <<>> ELSE <<"SP">> \o Trim(written[j]))
         \o Continuations(j + 1)

\* C22: splitHeaderBlocks gives one block per header-looking line, in the
\* order of the text; every other non-blank line is appended, after one
\* space, to the value of the block of the nearest header line before it and
\* never starts a block; such lines before the first header line are dropped,
\* and a text without a header-looking line gives no block.
C22_OneBlockPerHeaderLine ==
    pcSplit = "done" =>
        /\ Len(splitBlocks) = Cardinality(HeaderLikeLines)
        /\ \A k \in 1..Len(splitBlocks) :
              LET i == NthHeaderLine(k)
                  m == HeaderMatch(Trim(written[i]))
              IN  /\ splitBlocks[k].name = Trim(LowerText(m.name))
                  /\ splitBlocks[k].value = Trim(m.value) \o Continuations(i + 1)

C22_Witness ==
    /\ pcSplit = "done"
    /\ written = << <<"v">>, <<"Subject", ":", "SP", "Path">>, <<"SP", "Path", "TAB">> >>
    /\ splitBlocks = << [name |-> <<"subject">>, value |-> <<"Path", "SP", "Path">>] >>

----------------------------------------------------------------------------
(* Session run: EmailsService over the TestSession and Email collections, *)
(* with the background watchers it starts                                  *)

MaxResets == 1    \* most resetTest calls for one token in a session run
MaxWatchers == 2  \* most watchers started in a session run

\* the tokens startTest can draw
Tokens == {"T1", "T2"}

Final == {"parsed", "error"}

\* a stored session exists for the token
Stored(token) == sessions[token] # Absent

\* the session stored for the token
SessionOf(token) == sessions[token][1]

InitSession ==
    /\ AnalysisIdle
    /\ SplitIdle
    /\ ConnectIdle
    /\ sessions = [t \in Tokens |-> Absent]
    /\ emails = {}
    /\ watchers = <<>>
    /\ resets = [t \in Tokens |-> 0]
    /\ report = Absent

\* this.watchForTestEmail(token, subject), not awaited
StartWatcher(token) == Append(watchers, [token |-> token, pc |-> "watching"])

\* findOneAndUpdate({ token }, update): the update of the session of the
\* token, if there is one
UpdateSession(token, update) ==
    IF Stored(token)
    THEN [sessions EXCEPT ![token] =
             Some([status |-> update.status,
                   emailRef |-> IF update.setRef THEN update.emailRef
                                ELSE SessionOf(token).emailRef])]
    ELSE sessions

\* a step of a watcher that only moves it
Move(w, pc) == watchers' = [watchers EXCEPT ![w].pc = pc]

\* startTest: the save fails when the database fails or the token is taken
\* (token is unique); the token is returned either way
startTest(token, dbOk) ==
    /\ Len(watchers) < MaxWatchers
    /\ IF dbOk /\ ~Stored(token)
       THEN /\ sessions' = [sessions EXCEPT ![token] =
                               Some([status |-> "waiting", emailRef |-> Absent])]
            /\ watchers' = StartWatcher(token)
       ELSE UNCHANGED <<sessions, watchers>>
    /\ report' = Absent
    /\ UNCHANGED <<unfoldVars, parserVars, detectVars, watchVars, splitVars, connectVars,
                   emails, resets>>

\* the answer of getTestStatus when the try block throws
Fallback == [status |-> "received", emailId |-> Absent, fallback |-> TRUE]

\* getTestStatus: the answer for the session found, with the email it refers
\* to; the catch answers for a missing session and for a database failure
getTestStatus(token, dbOk) ==
    /\ report' =
          Some([token |-> token,
                stored |-> IF Stored(token) THEN Some(SessionOf(token).status) ELSE Absent,
                result |-> IF dbOk /\ Stored(token)
                           THEN [status |-> SessionOf(token).status,
                                 emailId |-> IF SessionOf(token).emailRef # Absent
                                                /\ SessionOf(token).emailRef[1] \in emails
                                             THEN SessionOf(token).emailRef ELSE Absent,
                                 fallback |-> FALSE]
                           ELSE Fallback])
    /\ UNCHANGED <<unfoldVars, parserVars, detectVars, watchVars, splitVars, connectVars,
                   sessions, emails, watchers, resets>>

\* resetTest: throws when the session is missing or the database fails;
\* otherwise the session is 'waiting' again and a new watcher runs next to
\* the earlier ones. Mongoose drops or stores the undefined emailRef
\* depending on its version.
resetTest(token, dbOk) ==
    /\ resets[token] < MaxResets
    /\ Len(watchers) < MaxWatchers
    /\ resets' = [resets EXCEPT ![token] = @ + 1]
    /\ IF dbOk /\ Stored(token)
       THEN /\ \E cleared \in BOOLEAN :
                  sessions' = UpdateSession(token, [status |-> "waiting",
                                                    setRef |-> cleared,
                                                    emailRef |-> Absent])
            /\ watchers' = StartWatcher(token)
       ELSE UNCHANGED <<sessions, watchers>>
    /\ report' = Absent
    /\ UNCHANGED <<unfoldVars, parserVars, detectVars, watchVars, splitVars, connectVars,
                   emails>>

\* imapService.watchForSubject returns the located message
WatchReturns(w) ==
    /\ watchers[w].pc = "watching"
    /\ Move(w, "located")
    /\ report' = Absent
    /\ UNCHANGED <<unfoldVars, parserVars, detectVars, watchVars, splitVars, connectVars,
                   sessions, emails, resets>>

\* imapService.watchForSubject throws: maxWaitTime has passed or IMAP failed
WatchThrows(w) ==
    /\ watchers[w].pc = "watching"
    /\ Move(w, "failed")
    /\ report' = Absent
    /\ UNCHANGED <<unfoldVars, parserVars, detectVars, watchVars, splitVars, connectVars,
                   sessions, emails, resets>>

\* the update to 'received'
MarkReceived(w, dbOk) ==
    /\ watchers[w].pc = "located"
    /\ IF dbOk
       THEN /\ sessions' = UpdateSession(watchers[w].token,
                                         [status |-> "received", setRef |-> FALSE,
                                          emailRef |-> Absent])
            /\ Move(w, "fetching")
       ELSE /\ Move(w, "failed")
            /\ UNCHANGED sessions
    /\ report' = Absent
    /\ UNCHANGED <<unfoldVars, parserVars, detectVars, watchVars, splitVars, connectVars,
                   emails, resets>>

\* fetchFromMailbox returns the message within 90 seconds, and the analysis
\* of its headers follows
FetchReturns(w) ==
    /\ watchers[w].pc = "fetching"
    /\ Move(w, "saving")
    /\ report' = Absent
    /\ UNCHANGED <<unfoldVars, parserVars, detectVars, watchVars, splitVars, connectVars,
                   sessions, emails, resets>>

\* fetchFromMailbox fails or times out: the update to 'error' and the early
\* return; when that update throws, the outer catch takes over
FetchFails(w, dbOk) ==
    /\ watchers[w].pc = "fetching"
    /\ IF dbOk
       THEN /\ sessions' = UpdateSession(watchers[w].token,
                                         [status |-> "error", setRef |-> FALSE,
                                          emailRef |-> Absent])
            /\ Move(w, "done")
       ELSE /\ Move(w, "failed")
            /\ UNCHANGED sessions
    /\ report' = Absent
    /\ UNCHANGED <<unfoldVars, parserVars, detectVars, watchVars, splitVars, connectVars,
                   emails, resets>>

\* email.save(): the document gets the id w; a failure is thrown again
SaveEmail(w, dbOk) ==
    /\ watchers[w].pc = "saving"
    /\ IF dbOk
       THEN /\ emails' = emails \cup {w}
            /\ Move(w, "marking")
       ELSE /\ Move(w, "failed")
            /\ UNCHANGED emails
    /\ report' = Absent
    /\ UNCHANGED <<unfoldVars, parserVars, detectVars, watchVars, splitVars, connectVars,
                   sessions, resets>>

\* a final update that leaves emailRef as it is
MarkParsedUpdate_StatusOnly(w) ==
    [status |-> "parsed", setRef |-> FALSE, emailRef |-> Absent]

\* { emailRef: savedEmail._id, status: 'parsed' }
MarkParsedUpdate(w) ==
    [status |-> "parsed", setRef |-> TRUE, emailRef |-> Some(w)]

\* the update with the email reference and the final status
MarkParsed(w, dbOk) ==
    /\ watchers[w].pc = "marking"
    /\ IF dbOk
       THEN /\ sessions' = UpdateSession(watchers[w].token, MarkParsedUpdate(w))
            /\ Move(w, "done")
       ELSE /\ Move(w, "failed")
            /\ UNCHANGED sessions
    /\ report' = Absent
    /\ UNCHANGED <<unfoldVars, parserVars, detectVars, watchVars, splitVars, connectVars,
                   emails, resets>>

\* the outer catch: the update to 'error', whose own failure is only logged
HandleError(w, dbOk) ==
    /\ watchers[w].pc = "failed"
    /\ sessions' = IF dbOk
                   THEN UpdateSession(watchers[w].token,
                                      [status |-> "error", setRef |-> FALSE,
                                       emailRef |-> Absent])
                   ELSE sessions
    /\ Move(w, "done")
    /\ report' = Absent
    /\ UNCHANGED <<unfoldVars, parserVars, detectVars, watchVars, splitVars, connectVars,
                   emails, resets>>

NextSession ==
    \/ \E token \in Tokens, dbOk \in BOOLEAN : startTest(token, dbOk)
    \/ \E token \in Tokens, dbOk \in BOOLEAN : getTestStatus(token, dbOk)
    \/ \E token \in Tokens, dbOk \in BOOLEAN : resetTest(token, dbOk)
    \/ \E w \in 1..Len(watchers) : WatchReturns(w)
    \/ \E w \in 1..Len(watchers) : WatchThrows(w)
    \/ \E w \in 1..Len(watchers), dbOk \in BOOLEAN : MarkReceived(w, dbOk)
    \/ \E w \in 1..Len(watchers) : FetchReturns(w)
    \/ \E w \in 1..Len(watchers), dbOk \in BOOLEAN : FetchFails(w, dbOk)
    \/ \E w \in 1..Len(watchers), dbOk \in BOOLEAN : SaveEmail(w, dbOk)
    \/ \E w \in 1..Len(watchers), dbOk \in BOOLEAN : MarkParsed(w, dbOk)
    \/ \E w \in 1..Len(watchers), dbOk \in BOOLEAN : HandleError(w, dbOk)

SpecSession == InitSession /\ [][NextSession]_vars

\* the watchers started for the token
WatchersOf(token) == {w \in 1..Len(watchers) : watchers[w].token = token}

----------------------------------------------------------------------------
(* Connect run: a sequence of ImapService.connect() calls *)

MaxCalls == 6     \* most connect() calls in a connect run

maxRetries == 3

InitConnect ==
    /\ AnalysisIdle
    /\ SplitIdle
    /\ SessionIdle
    /\ client = FALSE
    /\ isConnected = FALSE
    /\ connectionRetryCount = 0
    /\ connectPc = "idle"
    /\ attempts = 0
    /\ calls = 0

\* a connect() call starts: it returns at once on a live connection
connect ==
    /\ connectPc # "connecting"
    /\ calls < MaxCalls
    /\ calls' = calls + 1
    /\ attempts' = 0
    /\ connectPc' = IF isConnected /\ client THEN "returned" ELSE "connecting"
    /\ UNCHANGED <<unfoldVars, parserVars, detectVars, watchVars, splitVars, sessionVars,
                   client, isConnected, connectionRetryCount>>

\* an attempt of the call, after the cleanup of the old client, succeeds
AttemptSucceeds ==
    /\ connectPc = "connecting"
    /\ client' = TRUE
    /\ isConnected' = TRUE
    /\ connectionRetryCount' = 0
    /\ attempts' = attempts + 1
    /\ connectPc' = "returned"
    /\ UNCHANGED <<unfoldVars, parserVars, detectVars, watchVars, splitVars, sessionVars,
                   calls>>

\* an attempt fails, before the client is made (a missing environment
\* variable) or in client.connect(): the call throws once the counter has
\* reached maxRetries and calls itself again otherwise
AttemptFails(envMissing) ==
    /\ connectPc = "connecting"
    /\ client' = ~envMissing
    /\ isConnected' = FALSE
    /\ connectionRetryCount' = connectionRetryCount + 1
    /\ attempts' = attempts + 1
    /\ connectPc' = IF connectionRetryCount + 1 >= maxRetries THEN "threw" ELSE "connecting"
    /\ UNCHANGED <<unfoldVars, parserVars, detectVars, watchVars, splitVars, sessionVars,
                   calls>>

\* the 'close' or 'error' event of the client
ConnectionLost ==
    /\ isConnected
    /\ connectPc # "connecting"
    /\ isConnected' = FALSE
    /\ UNCHANGED <<unfoldVars, parserVars, detectVars, watchVars, splitVars, sessionVars,
                   client, connectionRetryCount, connectPc, attempts, calls>>

NextConnect ==
    \/ connect
    \/ AttemptSucceeds
    \/ \E envMissing \in BOOLEAN : AttemptFails(envMissing)
    \/ ConnectionLost

SpecConnect == InitConnect /\ [][NextConnect]_vars

----------------------------------------------------------------------------
(* Session run: the life of a status *)

Statuses == {"waiting", "received", "parsed", "error"}

\* C26: once the status of a session is 'parsed' or 'error' it changes only
\* by a resetTest call for its token, whatever the interleaving of startTest,
\* resetTest and the watchers, a watcher started before a reset included.
C26_FinalStatusSticks ==
    [][\A t \in Tokens :
          (Stored(t) /\ SessionOf(t).status \in Final /\ resets'[t] = resets[t])
              => sessions'[t][1].status = sessions[t][1].status]_vars

\* C27: a stored session whose watchers have all ended has status 'parsed'
\* or 'error': it is not left 'waiting' or 'received' for ever.
C27_EndsParsedOrError ==
    \A t \in Tokens :
        (Stored(t) /\ \A w \in WatchersOf(t) : watchers[w].pc = "done")
            => SessionOf(t).status \in Final

\* C28: whenever a session has status 'parsed', an Email document saved by
\* a watcher of its token is stored and emailRef refers to it, and a
\* getTestStatus answer with status 'parsed' carries that email.
C28_ParsedHasEmail ==
    /\ \A t \in Tokens :
          (Stored(t) /\ SessionOf(t).status = "parsed")
              => /\ SessionOf(t).emailRef # Absent
                 /\ SessionOf(t).emailRef[1] \in emails
                 /\ SessionOf(t).emailRef[1] \in WatchersOf(t)
    /\ (report # Absent /\ report[1].result.status = "parsed")
           => report[1].result.emailId # Absent

C28_Witness ==
    /\ Stored("T1") /\ SessionOf("T1").status = "parsed"
    /\ resets["T1"] = 1 /\ SessionOf("T1").emailRef = Some(2)
    /\ emails = {1, 2}
    /\ \A w \in WatchersOf("T1") : watchers[w].pc = "done"
    /\ report # Absent /\ report[1].token = "T1"
    /\ report[1].result.status = "parsed" /\ report[1].result.emailId = Some(2)

\* C29: getTestStatus reports the stored status of the session of the token,
\* and for a token without a stored session it reports no status at all
\* (it signals 'Test session not found').
C29_ReportsStoredStatus ==
    report # Absent =>
        IF report[1].stored # Absent
        THEN report[1].result.status = report[1].stored[1]
        ELSE report[1].result.status \notin Statuses

\* C30: a connect() call throws only after maxRetries failed attempts made
\* during that call, and connectionRetryCount never exceeds maxRetries.
C30_ThrowsAfterMaxRetries ==
    /\ connectPc = "threw" => attempts = maxRetries
    /\ connectionRetryCount <= maxRetries

====
